---------------------------- MODULE Spec2Model ----------------------------
(***************************************************************************)
(* NapkinWire: the shape-to-ASCII diagramming engine.                      *)
(*                                                                         *)
(* The engine functions (isOnPerimeter, generateASCII,                     *)
(* generateDiagramASCII, isPointNearShape, findShapeAtPoint,               *)
(* generateConnections, getShapeLabel) are pure functions of the shape     *)
(* list and the grid parameters.  The state machine below draws a shape    *)
(* list and grid parameters in Init and applies the entry points to it.    *)
(*                                                                         *)
(* Strings are sequences of one-character strings, so that lengths, line   *)
(* breaks, trimming and number formatting are computed, not assumed.       *)
(* JavaScript numbers are IEEE doubles; the geometry is computed here in   *)
(* exact rational arithmetic (integers, cross-multiplied), with the IEEE   *)
(* outcomes of a division by zero (Infinity, NaN) written out as cases.    *)
(***************************************************************************)
EXTENDS Integers, Sequences, FiniteSets, TLC

VARIABLES
    shapes,         \* the shape list handed to the engine (diagram-gen.js:66)
    mode,           \* "ui": UI-mockup page, "diagram": diagram page
    snapSize,       \* grid cell edge in pixels
    canvasWidth,    \* canvas.width
    canvasHeight,   \* canvas.height
    called,         \* the entry points applied so far
    threw,          \* the entry points whose last call threw
    asciiOutput,    \* the value returned by the rasterizer
    outputs,        \* the outcomes the rasterizer calls have had so far
    cellChars,      \* per row, per column: the value of `char` appended to row
    numbers,        \* the label map built by the rasterizer (index -> number)
    connections,    \* the value returned by generateConnections
    resolved,       \* per connection: the arrow and the two resolved indices
    scale,          \* canvas.width / rect.width, canvas pixels per client pixel
    currentShape,   \* the shape type selected on the toolbar
    isDrawing,      \* a drag gesture is in progress
    startX,         \* where the gesture began, snapped
    startY,
    currentPreview, \* the preview stored by the last move of a gesture
    animationFrameId,   \* a redraw is scheduled for the next animation frame
    pendingFrames,  \* the animation-frame callbacks requested and not yet run
    editor,         \* the text input on the page and the shape it edits
    pressTimer,     \* the long-press timer that pressTimer refers to
    strayTimers,    \* pending long-press timers no variable refers to any more
    callbacks,      \* the drawing and callback calls of the last handler
    currentColor,   \* UI-mockup page: the colour selected (part_002:29)
    asciiPreview,   \* UI-mockup page: textContent of #ascii-preview
    inputFields,    \* the inputs in #rectangle-dropdowns: id, label number, value
    annotations     \* the numbered lines of the last prompt: index, number, text

engineVars == <<called, threw, asciiOutput, outputs, cellChars, numbers,
                connections, resolved>>

mockupVars == <<currentColor, asciiPreview, inputFields, annotations>>

pageVars == <<mode, snapSize, canvasWidth, canvasHeight, scale, mockupVars>>

uiVars == <<currentShape, isDrawing, startX, startY, currentPreview,
            animationFrameId, pendingFrames, editor, pressTimer, strayTimers,
            callbacks>>

vars == <<shapes, pageVars, engineVars, uiVars>>

-----------------------------------------------------------------------------
(* Bounds of the model.                                                    *)

\* longest shape list drawn from the full palette
MaxShapes == 3

\* longest shape list made of two runs of equal shapes (reaches label 10)
MaxManyShapes == 10

\* longest shape list drawn by gestures on the diagram page
MaxDrawn == 2

\* most long-press timers pending at once
MaxTimers == 1

\* most animation-frame callbacks pending at once
MaxFrames == 2

\* most fingers on the canvas at once
MaxTouches == 2

-----------------------------------------------------------------------------
(* Strings and numbers.                                                    *)

Min(a, b) == IF a <= b THEN a ELSE b

Max(a, b) == IF a >= b THEN a ELSE b

Abs(a) == IF a < 0 THEN 0 - a ELSE a

\* the value of a property that was never assigned
Undefined == <<"undefined">>

\* shape.color of a shape that has none (colours are strings)
NoColor == "undefined"

\* the value of an expression that throws a TypeError
Raised == <<"TypeError">>

\* the outcome of a call: it returned value, or it threw
Return(value) == [threw |-> FALSE, value |-> value]

Throw == [threw |-> TRUE, value |-> <<>>]

Digits == <<"0", "1", "2", "3", "4", "5", "6", "7", "8", "9">>

\* Number.prototype.toString() of a non-negative integer
RECURSIVE toString(_)
toString(n) ==
    IF n < 10 THEN <<Digits[n + 1]>>
    ELSE toString(n \div 10) \o <<Digits[(n % 10) + 1]>>

IsWhitespace(c) == c \in {" ", "\t", "\n"}

RECURSIVE TrimStart(_)
TrimStart(s) ==
    IF s = <<>> THEN <<>>
    ELSE IF IsWhitespace(Head(s)) THEN TrimStart(Tail(s))
    ELSE s

RECURSIVE TrimEnd(_)
TrimEnd(s) ==
    IF s = <<>> THEN <<>>
    ELSE IF IsWhitespace(s[Len(s)]) THEN TrimEnd(SubSeq(s, 1, Len(s) - 1))
    ELSE s

\* String.prototype.trim()
Trim(s) == TrimEnd(TrimStart(s))

\* `shape.text && shape.text.trim()` taken as a condition
HasText(shape) ==
    /\ shape.text # Undefined
    /\ shape.text # <<>>
    /\ Trim(shape.text) # <<>>

-----------------------------------------------------------------------------
(* Exact rational arithmetic: <<n, d>> with d > 0, reduced.                *)

RECURSIVE Gcd(_, _)
Gcd(a, b) == IF b = 0 THEN a ELSE Gcd(b, a % b)

Rat(n, d) ==
    LET g == Gcd(Abs(n), Abs(d))
        sg == IF d < 0 THEN 0 - 1 ELSE 1
    IN  IF n = 0 THEN <<0, 1>> ELSE <<sg * (n \div g), sg * (d \div g)>>

RAdd(p, q) == Rat(p[1] * q[2] + q[1] * p[2], p[2] * q[2])

RSub(p, q) == Rat(p[1] * q[2] - q[1] * p[2], p[2] * q[2])

RMul(p, q) ==
    LET a == Rat(p[1], q[2])
        b == Rat(q[1], p[2])
    IN  Rat(a[1] * b[1], a[2] * b[2])

RAbs(p) == <<Abs(p[1]), p[2]>>

RLeq(p, q) == p[1] * q[2] <= q[1] * p[2]

ROne == <<1, 1>>

\* Math.sqrt(q) <= r, for q >= 0
SqrtLeq(q, r) == /\ r[1] >= 0
                 /\ RLeq(q, RMul(r, r))

\* Math.sqrt(q) >= r, for q >= 0
SqrtGeq(q, r) == \/ r[1] <= 0
                 \/ RLeq(RMul(r, r), q)

-----------------------------------------------------------------------------
(* Geometry predicates.                                                    *)

\* a shape record; color is NoColor on the diagram page, text is Undefined
\* until the text editor saves one
Shape(type, x, y, width, height, color, text) ==
    [type |-> type, x |-> x, y |-> y, width |-> width, height |-> height,
     color |-> color, text |-> text]

\* mutant: the right and bottom edges taken at x + width and y + height
rectangleOnPerimeterNoSnap(pixelX, pixelY, shape, snap) ==
    LET onLeftOrRight ==
            /\ (pixelX = shape.x \/ pixelX = shape.x + shape.width)
            /\ (pixelY >= shape.y /\ pixelY < shape.y + shape.height)
        onTopOrBottom ==
            /\ (pixelY = shape.y \/ pixelY = shape.y + shape.height)
            /\ (pixelX >= shape.x /\ pixelX < shape.x + shape.width)
    IN  onLeftOrRight \/ onTopOrBottom

\* the 'rectangle' branch of isOnPerimeter
rectangleOnPerimeter(pixelX, pixelY, shape, snap) ==
    LET onLeftOrRight ==
            /\ (pixelX = shape.x \/ pixelX = shape.x + shape.width - snap)
            /\ (pixelY >= shape.y /\ pixelY < shape.y + shape.height)
        onTopOrBottom ==
            /\ (pixelY = shape.y \/ pixelY = shape.y + shape.height - snap)
            /\ (pixelX >= shape.x /\ pixelX < shape.x + shape.width)
    IN  onLeftOrRight \/ onTopOrBottom

\* the 'circle' branch: |sqrt(dx^2 + dy^2) - 1| <= snap / max(radiusX, radiusY).
\* numX / diamX is dx = (pixelX - centerX) / radiusX with both doubled.
\* A zero radius divides by zero: dx is NaN when numX = 0 and an infinity
\* otherwise; the tolerance is Infinity when both radii are zero.
circleOnPerimeter(pixelX, pixelY, shape, snap) ==
    LET numX == 2 * pixelX - 2 * shape.x - shape.width
        numY == 2 * pixelY - 2 * shape.y - shape.height
        diamX == Abs(shape.width)
        diamY == Abs(shape.height)
    IN  IF diamX = 0 /\ diamY = 0
        THEN numX # 0 /\ numY # 0
        ELSE IF diamX = 0 \/ diamY = 0
        THEN FALSE
        ELSE LET dx == Rat(numX, diamX)
                 dy == Rat(numY, diamY)
                 sq == RAdd(RMul(dx, dx), RMul(dy, dy))
                 tolerance == Rat(2 * snap, Max(diamX, diamY))
             IN  /\ SqrtLeq(sq, RAdd(ROne, tolerance))
                 /\ SqrtGeq(sq, RSub(ROne, tolerance))

\* the 'diamond' branch: |relX + relY - 1| <= snap / max(halfWidth, halfHeight);
\* halfWidth and halfHeight keep their sign.  A zero half-extent gives
\* relX = NaN (0/0) or Infinity, and the tolerance is Infinity when the
\* larger half-extent is zero.
diamondOnPerimeter(pixelX, pixelY, shape, snap) ==
    LET numX == Abs(2 * pixelX - 2 * shape.x - shape.width)
        numY == Abs(2 * pixelY - 2 * shape.y - shape.height)
        w == shape.width
        h == shape.height
    IN  IF (w = 0 /\ numX = 0) \/ (h = 0 /\ numY = 0)
        THEN FALSE
        ELSE IF w = 0 \/ h = 0
        THEN Max(w, h) = 0
        ELSE LET rel == RAdd(Rat(numX, w), Rat(numY, h))
                 edgeDistance == RAbs(RSub(rel, ROne))
                 tolerance == Rat(2 * snap, Max(w, h))
             IN  RLeq(edgeDistance, tolerance)

\* the 'arrow' branch: the distance from the point to the segment from
\* (x, y) to (x + width, y + height) is at most snap / 2
arrowOnPerimeter(pixelX, pixelY, shape, snap) ==
    LET w == shape.width
        h == shape.height
        lenSq == w * w + h * h
        pointX == pixelX - shape.x
        pointY == pixelY - shape.y
        dot == pointX * w + pointY * h
        endX == pixelX - (shape.x + w)
        endY == pixelY - (shape.y + h)
        cross == pointX * h - pointY * w
    IN  IF lenSq = 0 THEN FALSE
        ELSE IF dot <= 0
        THEN 4 * (pointX * pointX + pointY * pointY) <= snap * snap
        ELSE IF dot >= lenSq
        THEN 4 * (endX * endX + endY * endY) <= snap * snap
        ELSE RLeq(RMul(Rat(cross, lenSq), Rat(cross, 1)), Rat(snap * snap, 4))

isOnPerimeter(x, y, shape, snap) ==
    LET pixelX == x * snap
        pixelY == y * snap
    IN  CASE shape.type = "rectangle" -> rectangleOnPerimeter(pixelX, pixelY, shape, snap)
          [] shape.type = "circle" -> circleOnPerimeter(pixelX, pixelY, shape, snap)
          [] shape.type = "diamond" -> diamondOnPerimeter(pixelX, pixelY, shape, snap)
          [] shape.type = "arrow" -> arrowOnPerimeter(pixelX, pixelY, shape, snap)
          [] OTHER -> FALSE

-----------------------------------------------------------------------------
(* Label assignment and grid rasterization.                                *)

\* the role sentinel: purple marks a text area
Purple == "#ff00ff"

\* shapes[index] with the zero-based index of the code
At(ss, index) == ss[index + 1]

EmptyMap == [i \in {} |-> 0]

\* the colour-to-glyph table handed to generateASCII
colorToChar ==
    [c \in {"#ff0000", "#00ff00", "#0000ff", "#ffff00", Purple} |->
        CASE c = "#ff0000" -> "#"
          [] c = "#00ff00" -> "@"
          [] c = "#0000ff" -> "%"
          [] c = "#ffff00" -> "&"
          [] OTHER -> "."]

\* colorMapping[shape.color] || '?'
colorChar(color) ==
    IF color \in DOMAIN colorToChar THEN <<colorToChar[color]>> ELSE <<"?">>

\* mutant: the counter is kept from one call to the next
textAreaNumbersKept(ss, index, textAreaCounter) ==
    [i \in { j \in index..(Len(ss) - 1) : At(ss, j).color = Purple } |->
        Cardinality(DOMAIN numbers) + textAreaCounter
            + Cardinality({ j \in index..(i - 1) : At(ss, j).color = Purple })]

\* mutant: numbered from the end of the list backwards
RECURSIVE textAreaNumbersCountdown(_, _, _)
textAreaNumbersCountdown(ss, index, textAreaCounter) ==
    IF index >= Len(ss) THEN EmptyMap
    ELSE IF At(ss, index).color = Purple
    THEN (index :> Cardinality({ j \in index..(Len(ss) - 1) : At(ss, j).color = Purple }))
            @@ textAreaNumbersCountdown(ss, index + 1, textAreaCounter)
    ELSE textAreaNumbersCountdown(ss, index + 1, textAreaCounter)

\* generateASCII's forEach: purple shapes get 1, 2, ... in index order
RECURSIVE textAreaNumbersFrom(_, _, _)
textAreaNumbersFrom(ss, index, textAreaCounter) ==
    IF index >= Len(ss) THEN EmptyMap
    ELSE IF At(ss, index).color = Purple
    THEN (index :> textAreaCounter)
            @@ textAreaNumbersFrom(ss, index + 1, textAreaCounter + 1)
    ELSE textAreaNumbersFrom(ss, index + 1, textAreaCounter)

textAreaNumbers(ss) == textAreaNumbersFrom(ss, 0, 1)

\* mutant: the counter advances on every shape, labelled or not
RECURSIVE shapeNumbersEveryShape(_, _, _)
shapeNumbersEveryShape(ss, index, counter) ==
    IF index >= Len(ss) THEN EmptyMap
    ELSE IF HasText(At(ss, index))
    THEN (index :> counter) @@ shapeNumbersEveryShape(ss, index + 1, counter + 1)
    ELSE shapeNumbersEveryShape(ss, index + 1, counter + 1)

\* mutant: numbered from the end of the list backwards
RECURSIVE shapeNumbersCountdown(_, _, _)
shapeNumbersCountdown(ss, index, counter) ==
    IF index >= Len(ss) THEN EmptyMap
    ELSE IF HasText(At(ss, index))
    THEN (index :> Cardinality({ j \in index..(Len(ss) - 1) : HasText(At(ss, j)) }))
            @@ shapeNumbersCountdown(ss, index + 1, counter)
    ELSE shapeNumbersCountdown(ss, index + 1, counter)

\* generateDiagramASCII's forEach: shapes with non-blank text get 1, 2, ...
RECURSIVE shapeNumbersFrom(_, _, _)
shapeNumbersFrom(ss, index, counter) ==
    IF index >= Len(ss) THEN EmptyMap
    ELSE IF HasText(At(ss, index))
    THEN (index :> counter) @@ shapeNumbersFrom(ss, index + 1, counter + 1)
    ELSE shapeNumbersFrom(ss, index + 1, counter)

shapeNumbers(ss) == shapeNumbersFrom(ss, 0, 1)

\* map.get(index).toString(): a missing key gives undefined, whose
\* toString is a TypeError
getToString(map, index) ==
    IF index \in DOMAIN map THEN toString(map[index]) ELSE Raised

\* the Arrow Direction Quantizer: atan2(height, width) in degrees, bucketed
\* into 45-degree octants centred on the axes and diagonals, opposite
\* octants sharing a glyph.  tan(22.5 deg) = sqrt(2) - 1, so the vector is
\* within 22.5 degrees of the x axis iff (|dx| + |dy|)^2 < 2 dx^2.
getArrowChar(shape, x, y, snap) ==
    LET dx == shape.width
        dy == shape.height
        sum == Abs(dx) + Abs(dy)
    IN  IF dx = 0 /\ dy = 0 THEN <<"-">>
        ELSE IF sum * sum < 2 * dx * dx THEN <<"-">>
        ELSE IF sum * sum < 2 * dy * dy THEN <<"|">>
        ELSE IF (dx > 0) = (dy > 0) THEN <<"\\">>
        ELSE <<"/">>

\* the glyph generateASCII gives a cell claimed by shapes[shapeIndex]
asciiGlyph(ss, map, shapeIndex) ==
    IF At(ss, shapeIndex).color = Purple
    THEN getToString(map, shapeIndex)
    ELSE colorChar(At(ss, shapeIndex).color)

\* mutant: no break, so the last matching shape overwrites the earlier ones
RECURSIVE asciiCharLast(_, _, _, _, _, _)
asciiCharLast(ss, map, x, y, snap, shapeIndex) ==
    IF shapeIndex >= Len(ss) THEN <<" ">>
    ELSE LET later == asciiCharLast(ss, map, x, y, snap, shapeIndex + 1)
         IN  IF later # <<" ">> THEN later
             ELSE IF isOnPerimeter(x, y, At(ss, shapeIndex), snap)
             THEN asciiGlyph(ss, map, shapeIndex)
             ELSE <<" ">>

\* generateASCII's inner loop from shapeIndex on: first match, then break
RECURSIVE asciiCharFrom(_, _, _, _, _, _)
asciiCharFrom(ss, map, x, y, snap, shapeIndex) ==
    IF shapeIndex >= Len(ss) THEN <<" ">>
    ELSE IF isOnPerimeter(x, y, At(ss, shapeIndex), snap)
    THEN asciiGlyph(ss, map, shapeIndex)
    ELSE asciiCharFrom(ss, map, x, y, snap, shapeIndex + 1)

\* mutant: the number is looked up without the has() test
diagramGlyphNoHas(ss, map, x, y, snap, shapeIndex) ==
    IF At(ss, shapeIndex).type = "arrow"
    THEN getArrowChar(At(ss, shapeIndex), x, y, snap)
    ELSE getToString(map, shapeIndex)

\* mutant: an arrow is drawn like any other shape
diagramGlyphNoArrow(ss, map, x, y, snap, shapeIndex) ==
    IF shapeIndex \in DOMAIN map
    THEN getToString(map, shapeIndex)
    ELSE <<"#">>

\* the glyph generateDiagramASCII gives a cell claimed by shapes[shapeIndex]
diagramGlyph(ss, map, x, y, snap, shapeIndex) ==
    IF At(ss, shapeIndex).type = "arrow"
    THEN getArrowChar(At(ss, shapeIndex), x, y, snap)
    ELSE IF shapeIndex \in DOMAIN map
    THEN getToString(map, shapeIndex)
    ELSE <<"#">>

\* generateDiagramASCII's inner loop from shapeIndex on
RECURSIVE diagramCharFrom(_, _, _, _, _, _)
diagramCharFrom(ss, map, x, y, snap, shapeIndex) ==
    IF shapeIndex >= Len(ss) THEN <<" ">>
    ELSE IF isOnPerimeter(x, y, At(ss, shapeIndex), snap)
    THEN diagramGlyph(ss, map, x, y, snap, shapeIndex)
    ELSE diagramCharFrom(ss, map, x, y, snap, shapeIndex + 1)

\* mutant: rounded up
gridSizeCeil(canvas, snap) == (canvas + snap - 1) \div snap

\* Math.floor(canvasWidth / snapSize)
gridSize(canvas, snap) == canvas \div snap

\* the values of `char`, row by row (rows and columns are one-based here)
asciiCells(ss, cw, ch, snap) ==
    LET map == textAreaNumbers(ss)
    IN  [gy \in 1..gridSize(ch, snap) |->
            [gx \in 1..gridSize(cw, snap) |->
                asciiCharFrom(ss, map, gx - 1, gy - 1, snap, 0)]]

diagramCells(ss, cw, ch, snap) ==
    LET map == shapeNumbers(ss)
    IN  [gy \in 1..gridSize(ch, snap) |->
            [gx \in 1..gridSize(cw, snap) |->
                diagramCharFrom(ss, map, gx - 1, gy - 1, snap, 0)]]

\* row += char, over a row of cells
RECURSIVE joinCells(_)
joinCells(row) ==
    IF row = <<>> THEN <<>> ELSE Head(row) \o joinCells(Tail(row))

\* asciiOutput += row + '\n', over the rows
RECURSIVE joinRows(_)
joinRows(rows) ==
    IF rows = <<>> THEN <<>>
    ELSE joinCells(Head(rows)) \o <<"\n">> \o joinRows(Tail(rows))

\* whether computing some cell throws
cellsRaise(cells) ==
    \E gy \in DOMAIN cells : \E gx \in DOMAIN cells[gy] : cells[gy][gx] = Raised

generateASCII(ss, cw, ch, snap) ==
    LET cells == asciiCells(ss, cw, ch, snap)
    IN  IF cellsRaise(cells) THEN Throw ELSE Return(joinRows(cells))

generateDiagramASCII(ss, cw, ch, snap) ==
    LET cells == diagramCells(ss, cw, ch, snap)
    IN  IF cellsRaise(cells) THEN Throw ELSE Return(joinRows(cells))

-----------------------------------------------------------------------------
(* Connection resolution (diagram page).                                   *)

\* isPointNearShape's attachment tolerance, in pixels
tolerance == 15

\* mutant: the filled box, inflated by the tolerance, of every closed shape
isPointInInflatedBox(x, y, shape) ==
    /\ shape.type # "arrow"
    /\ x >= shape.x - tolerance
    /\ x <= shape.x + shape.width + tolerance
    /\ y >= shape.y - tolerance
    /\ y <= shape.y + shape.height + tolerance

\* dx and dy of the 'circle' case are (x - centerX) / (|width / 2| + tolerance),
\* and likewise for the 'diamond' case; numerators and denominators doubled
isPointNearShape(x, y, shape) ==
    LET numX == 2 * x - 2 * shape.x - shape.width
        numY == 2 * y - 2 * shape.y - shape.height
        denX == Abs(shape.width) + 2 * tolerance
        denY == Abs(shape.height) + 2 * tolerance
    IN  CASE shape.type = "rectangle" ->
                /\ x >= shape.x - tolerance
                /\ x <= shape.x + shape.width + tolerance
                /\ y >= shape.y - tolerance
                /\ y <= shape.y + shape.height + tolerance
                /\ \/ x <= shape.x + tolerance
                   \/ x >= shape.x + shape.width - tolerance
                   \/ y <= shape.y + tolerance
                   \/ y >= shape.y + shape.height - tolerance
          [] shape.type = "circle" ->
                LET dx == Rat(numX, denX)
                    dy == Rat(numY, denY)
                IN  RLeq(RAdd(RMul(dx, dx), RMul(dy, dy)), ROne)
          [] shape.type = "diamond" ->
                RLeq(RAdd(Rat(Abs(numX), denX), Rat(Abs(numY), denY)), ROne)
          [] OTHER -> FALSE

\* no shape found
Null == [index |-> 0 - 1]

\* mutant: the first shape in list order wins (i counts the shapes left)
RECURSIVE findShapeForward(_, _, _, _, _)
findShapeForward(ss, x, y, excludeIndex, i) ==
    LET index == Len(ss) - 1 - i
    IN  IF i < 0 THEN Null
        ELSE IF index = excludeIndex
        THEN findShapeForward(ss, x, y, excludeIndex, i - 1)
        ELSE IF isPointNearShape(x, y, At(ss, index))
        THEN [index |-> index]
        ELSE findShapeForward(ss, x, y, excludeIndex, i - 1)

\* the loop of findShapeAtPoint from index i down to 0
RECURSIVE findShapeFrom(_, _, _, _, _)
findShapeFrom(ss, x, y, excludeIndex, i) ==
    IF i < 0 THEN Null
    ELSE IF i = excludeIndex
    THEN findShapeFrom(ss, x, y, excludeIndex, i - 1)
    ELSE IF isPointNearShape(x, y, At(ss, i))
    THEN [index |-> i]
    ELSE findShapeFrom(ss, x, y, excludeIndex, i - 1)

findShapeAtPoint(ss, x, y, excludeIndex) ==
    findShapeFrom(ss, x, y, excludeIndex, Len(ss) - 1)

\* the counting loop of getShapeLabel: 1 + the labelled shapes before index
RECURSIVE labelCounter(_, _, _)
labelCounter(ss, index, i) ==
    IF i >= index THEN 1
    ELSE (IF HasText(At(ss, i)) THEN 1 ELSE 0) + labelCounter(ss, index, i + 1)

getShapeLabel(ss, shape, index) ==
    IF HasText(shape)
    THEN <<"\"">> \o shape.text \o <<"\"">>
    ELSE toString(labelCounter(ss, index, 0))

\* mutant: the start is looked up at the end point and the end at the start
arrowEndsSwapped(ss, index) ==
    LET shape == At(ss, index)
    IN  [arrow |-> index,
         start |-> findShapeAtPoint(ss, shape.x + shape.width,
                                    shape.y + shape.height, index).index,
         end |-> findShapeAtPoint(ss, shape.x, shape.y, index).index]

\* what the arrow at index resolves to: the two findShapeAtPoint results
arrowEnds(ss, index) ==
    LET shape == At(ss, index)
    IN  [arrow |-> index,
         start |-> findShapeAtPoint(ss, shape.x, shape.y, index).index,
         end |-> findShapeAtPoint(ss, shape.x + shape.width,
                                  shape.y + shape.height, index).index]

\* mutant: one resolved end is enough
eitherResolved(ends) == ends.start # Null.index \/ ends.end # Null.index

\* `startShape && endShape`
bothResolved(ends) == ends.start # Null.index /\ ends.end # Null.index

\* `${startLabel} -> ${endLabel}`; "->" stands for the one arrow character.
\* startShape.shape on a null result is a TypeError.
connectionText(ss, ends) ==
    IF ends.start = Null.index \/ ends.end = Null.index THEN Raised
    ELSE getShapeLabel(ss, At(ss, ends.start), ends.start)
            \o <<" ", "->", " ">>
            \o getShapeLabel(ss, At(ss, ends.end), ends.end)

\* the forEach of generateConnections from index on: the arrows that pass
\* the test, in list order
RECURSIVE resolvedFrom(_, _)
resolvedFrom(ss, index) ==
    IF index >= Len(ss) THEN <<>>
    ELSE IF At(ss, index).type = "arrow" /\ bothResolved(arrowEnds(ss, index))
    THEN <<arrowEnds(ss, index)>> \o resolvedFrom(ss, index + 1)
    ELSE resolvedFrom(ss, index + 1)

generateConnections(ss) ==
    LET ends == resolvedFrom(ss, 0)
        texts == [k \in 1..Len(ends) |-> connectionText(ss, ends[k])]
    IN  IF \E k \in DOMAIN texts : texts[k] = Raised THEN Throw ELSE Return(texts)

-----------------------------------------------------------------------------
(* The inputs: shape lists drawn from palettes of grid-snapped shapes.     *)

\* a shape given in grid cells, scaled to pixels of the snap size
Snapped(type, cx, cy, cw, ch, color, text, snap) ==
    Shape(type, cx * snap, cy * snap, cw * snap, ch * snap, color, text)

\* shapes of the diagram page: no colour, optional text.  The lists are the
\* arguments of the engine functions, so they include the degenerate shapes
\* (a zero-length arrow, a flat arrow, a zero-size circle) that the drawing
\* handlers reject.  Circles and diamonds are 2 x 2 cells or empty: for
\* these sizes the exact comparison and the comparison in doubles agree at
\* every cell (a 3-cell side puts cells exactly on the tolerance 2/3, where
\* rounding decides).
DiagramPalette(snap) ==
    { Snapped("rectangle", 0, 0, 2, 2, NoColor, <<"A">>, snap),
      Snapped("rectangle", 0, 0, 2, 2, NoColor, Undefined, snap),
      Snapped("rectangle", 4, 0, 2, 3, NoColor, <<"B">>, snap),
      Snapped("rectangle", 1, 1, 2, 2, NoColor, <<" ">>, snap),
      Snapped("circle", 0, 1, 2, 2, NoColor, <<"C">>, snap),
      Snapped("diamond", 3, 1, 2, 2, NoColor, Undefined, snap),
      Snapped("arrow", 2, 1, 2, 0, NoColor, Undefined, snap),
      Snapped("arrow", 0, 0, 2, 2, NoColor, Undefined, snap),
      Snapped("arrow", 2, 1, 0, 0, NoColor, Undefined, snap),
      Snapped("circle", 1, 1, 0, 0, NoColor, Undefined, snap) }

\* shapes of the UI-mockup page: rectangles with a colour, no text
UIPalette(snap) ==
    { Snapped("rectangle", 0, 0, 2, 2, Purple, Undefined, snap),
      Snapped("rectangle", 1, 1, 3, 2, "#ff0000", Undefined, snap),
      Snapped("rectangle", 3, 0, 2, 2, Purple, Undefined, snap),
      Snapped("rectangle", 0, 2, 2, 1, "#DAA520", Undefined, snap),
      Snapped("rectangle", 1, 1, 2, 2, Purple, Undefined, snap) }

\* two content shapes apart from each other, for long lists
ManyDiagramPalette(snap) ==
    { Snapped("rectangle", 0, 0, 2, 2, NoColor, <<"A">>, snap),
      Snapped("rectangle", 4, 0, 2, 3, NoColor, <<"B">>, snap) }

ManyUIPalette(snap) ==
    { Snapped("rectangle", 0, 0, 2, 2, Purple, Undefined, snap),
      Snapped("rectangle", 3, 0, 2, 2, Purple, Undefined, snap) }

\* the lists over palette of length at most n
ListsUpTo(palette, n) == UNION { [1..k -> palette] : k \in 0..n }

\* the lists of length at most n that repeat one shape of the palette and
\* then another
RunsUpTo(palette, n) ==
    { [i \in 1..k |-> IF i <= j THEN a ELSE b] :
        k \in 0..n, j \in 0..n, a \in palette, b \in palette }

\* the snap sizes of the pages: 10 (mouse), 15 (touch)
SnapSizes == {10, 15}

\* long lists are drawn at the mouse snap size only
ManyBound(snap) == IF snap = 10 THEN MaxManyShapes ELSE 0

\* at the touch snap size the lists are one shape shorter
ShapesBound(snap) == IF snap = 10 THEN MaxShapes ELSE MaxShapes - 1

Config(m, snap, cw, ch, ss) ==
    [mode |-> m, snapSize |-> snap, canvasWidth |-> cw, canvasHeight |-> ch,
     shapes |-> ss]

\* lists over the palettes on a 65 x 45 canvas (6 x 4 or 4 x 3 cells)
PaletteConfigs ==
    UNION { { Config("ui", snap, 65, 45, ss) :
                ss \in ListsUpTo(UIPalette(snap), ShapesBound(snap))
                        \cup RunsUpTo(ManyUIPalette(snap), ManyBound(snap)) }
            \cup
            { Config("diagram", snap, 65, 45, ss) :
                ss \in ListsUpTo(DiagramPalette(snap), ShapesBound(snap))
                        \cup RunsUpTo(ManyDiagramPalette(snap), ManyBound(snap)) } :
            snap \in SnapSizes }

\* one rectangle at (20, 20, 60, 40) on a 200 x 100 canvas, snap size 10
BorderScene(m) ==
    Config(m, 10, 200, 100,
           <<Shape("rectangle", 20, 20, 60, 40,
                   IF m = "ui" THEN "#ff0000" ELSE NoColor, Undefined)>>)

\* two rectangles 100 pixels apart and an arrow from the right edge of the
\* first to the left edge of the second, on a 300 x 100 canvas
ArrowScene(text1, text2) ==
    Config("diagram", 10, 300, 100,
           <<Shape("rectangle", 0, 0, 100, 100, NoColor, text1),
             Shape("rectangle", 200, 0, 100, 100, NoColor, text2),
             Shape("arrow", 100, 50, 100, 0, NoColor, Undefined)>>)

\* the components of the arrow vectors of the glyph scenes
VectorParts == {0 - 30, 0 - 10, 0, 10, 30}

\* one arrow from (30, 30) with the vector (dx, dy) on a 70 x 70 canvas
GlyphScene(dx, dy) ==
    Config("diagram", 10, 70, 70,
           <<Shape("arrow", 30, 30, dx, dy, NoColor, Undefined)>>)

\* a large rectangle, a second one 100 pixels to its right, and an arrow
\* from the middle of the first to the left edge of the second; with inner, a
\* small rectangle around the arrow's start comes first in the list
DeepScene(inner) ==
    Config("diagram", 10, 300, 100,
           (IF inner THEN <<Shape("rectangle", 40, 40, 20, 20, NoColor, Undefined)>>
            ELSE <<>>)
           \o <<Shape("rectangle", 0, 0, 100, 100, NoColor, Undefined),
                Shape("rectangle", 200, 0, 100, 100, NoColor, Undefined),
                Shape("arrow", 50, 50, 150, 0, NoColor, Undefined)>>)

SceneConfigs ==
    { BorderScene(m) : m \in {"ui", "diagram"} }
    \cup { GlyphScene(dx, dy) : dx \in VectorParts, dy \in VectorParts }
    \cup { DeepScene(inner) : inner \in BOOLEAN }
    \cup { ArrowScene(t1, t2) : t1 \in {<<"R", "1">>, Undefined},
                                t2 \in {<<"R", "2">>, Undefined} }

Configs == PaletteConfigs \cup SceneConfigs

EntryPoints == {"generateASCII", "generateDiagramASCII", "generateConnections"}

\* `let currentPreview = null`
NoPreview == [type |-> "null", x |-> 0, y |-> 0, width |-> 0, height |-> 0]

\* no text input on the page; target is the index of the edited shape, or
\* -1 once that shape is no longer in the list
NoEditor == [open |-> FALSE, target |-> 0 - 1, value |-> <<>>]

\* no long-press timer pending; a pending timer keeps the position of the
\* touch that started it
NoTimer == [pending |-> FALSE, x |-> 0, y |-> 0]

\* the page after its script has run (diagram-gen.js:61-66, 436, 623-624).
\* startX and startY are declared without a value; no handler reads them
\* before a mousedown or touchstart has assigned them (isDrawing guards
\* every read), so they are given 0 here.
PageLoaded ==
    /\ currentShape = "rectangle"
    /\ isDrawing = FALSE
    /\ startX = 0
    /\ startY = 0
    /\ currentPreview = NoPreview
    /\ animationFrameId = FALSE
    /\ pendingFrames = 0
    /\ editor = NoEditor
    /\ pressTimer = NoTimer
    /\ strayTimers = <<>>
    /\ callbacks = <<>>
    /\ currentColor = "#ff0000"
    /\ asciiPreview = <<>>
    /\ inputFields = <<>>
    /\ annotations = <<>>

\* no engine entry point has been called
EngineIdle ==
    /\ called = {}
    /\ threw = {}
    /\ asciiOutput = <<>>
    /\ outputs = {}
    /\ cellChars = <<>>
    /\ numbers = EmptyMap
    /\ connections = <<>>
    /\ resolved = <<>>

TypeOK ==
    /\ mode \in {"ui", "diagram"}
    /\ snapSize \in SnapSizes
    /\ canvasWidth > 0 /\ canvasHeight > 0
    /\ called \subseteq EntryPoints
    /\ threw \subseteq called
    /\ \A i \in DOMAIN shapes :
        shapes[i].type \in {"rectangle", "circle", "diamond", "arrow"}

Init ==
    /\ \E c \in Configs :
        /\ mode = c.mode
        /\ snapSize = c.snapSize
        /\ canvasWidth = c.canvasWidth
        /\ canvasHeight = c.canvasHeight
        /\ shapes = c.shapes
    /\ scale = 1
    /\ EngineIdle
    /\ PageLoaded

\* the bookkeeping of a call of the entry point name with the outcome result
Outcome(name, result) ==
    /\ called' = called \cup {name}
    /\ threw' = IF result.threw THEN threw \cup {name} ELSE threw \ {name}

\* mutant: trim() replaces the text of the shape it is called on
shapesTrimmed(ss) ==
    [k \in DOMAIN ss |->
        IF ss[k].text = Undefined THEN ss[k]
        ELSE [ss[k] EXCEPT !.text = Trim(ss[k].text)]]

\* the list after the engine has read it: `shape.text.trim()` returns a new
\* string and no statement of the engine assigns to the list or to a shape
shapesAfter(ss) == ss

\* the UI-mockup page rasterizes its list
CallGenerateASCII ==
    /\ mode = "ui"
    /\ LET result == generateASCII(shapes, canvasWidth, canvasHeight, snapSize)
       IN  /\ asciiOutput' = result.value
           /\ outputs' = outputs \cup {result}
           /\ Outcome("generateASCII", result)
    /\ cellChars' = asciiCells(shapes, canvasWidth, canvasHeight, snapSize)
    /\ numbers' = textAreaNumbers(shapes)
    /\ UNCHANGED <<shapes, pageVars, uiVars, connections, resolved>>

\* the diagram page rasterizes its list
CallGenerateDiagramASCII ==
    /\ mode = "diagram"
    /\ LET result == generateDiagramASCII(shapes, canvasWidth, canvasHeight, snapSize)
       IN  /\ asciiOutput' = result.value
           /\ outputs' = outputs \cup {result}
           /\ Outcome("generateDiagramASCII", result)
    /\ cellChars' = diagramCells(shapes, canvasWidth, canvasHeight, snapSize)
    /\ numbers' = shapeNumbers(shapes)
    /\ shapes' = shapesAfter(shapes)
    /\ UNCHANGED <<pageVars, uiVars, connections, resolved>>

\* the diagram page resolves its arrows
CallGenerateConnections ==
    /\ mode = "diagram"
    /\ LET result == generateConnections(shapes)
       IN  /\ connections' = result.value
           /\ Outcome("generateConnections", result)
    /\ resolved' = resolvedFrom(shapes, 0)
    /\ shapes' = shapesAfter(shapes)
    /\ UNCHANGED <<pageVars, uiVars, asciiOutput, outputs, cellChars, numbers>>

Next ==
    \/ CallGenerateASCII
    \/ CallGenerateDiagramASCII
    \/ CallGenerateConnections

Spec == Init /\ [][Next]_vars

-----------------------------------------------------------------------------
(* The diagram page: gestures, toolbar, undo, clear, text editor.          *)

\* mutant: the coordinate is kept as it is
snapToNothing(coord, snap) == coord

\* Math.floor(coord / snapSize) * snapSize
snapToGrid(coord, snap) == (coord \div snap) * snap

\* getMousePos / getTouchPos / the touchend computation: the pointer's
\* offset from the canvas corner in client pixels, scaled to canvas pixels
\* and snapped
getMousePos(client, snap) ==
    [x |-> snapToGrid(client[1] * scale, snap),
     y |-> snapToGrid(client[2] * scale, snap)]

\* pointer positions, as offsets from the canvas corner in client pixels
ClientPoints == { <<7, 7>>, <<19, 19>>, <<0 - 4, 7>> }

\* the positions over the canvas
OnCanvas(client) ==
    /\ client[1] >= 0 /\ client[1] * scale < canvasWidth
    /\ client[2] >= 0 /\ client[2] * scale < canvasHeight

\* the buttons of the shape toolbar that are clicked: one closed shape and
\* the arrow (the handlers treat every type alike)
Toolbar == {"rectangle", "arrow"}

\* what the user types into the text input
EditorValues == { <<>>, <<"A">> }

\* the pages: mouse device (snap 10) at scale 1, touch device (snap 15)
\* with a canvas of twice its displayed size
Pages == { [snapSize |-> 10, scale |-> 1], [snapSize |-> 15, scale |-> 2] }

\* the object literal pushed when a gesture completes
newShape(type, x0, y0, posX, posY) ==
    [type |-> type, x |-> Min(x0, posX), y |-> Min(y0, posY),
     width |-> Abs(posX - x0), height |-> Abs(posY - y0),
     color |-> NoColor, text |-> Undefined]

\* the size test of the mouseup handler
mouseSizeOK(width, height, snap) == Abs(width) >= 10 /\ Abs(height) >= 10

\* the size test of the touchend handler
touchSizeOK(width, height, snap) == Abs(width) >= snap /\ Abs(height) >= snap

\* mutant: every type, the arrow too, is hit inside its bounding box
isPointInBox(x, y, shape) ==
    /\ x >= Min(shape.x, shape.x + shape.width)
    /\ x <= Max(shape.x, shape.x + shape.width)
    /\ y >= Min(shape.y, shape.y + shape.height)
    /\ y <= Max(shape.y, shape.y + shape.height)

\* isPointInShape; a zero radius gives an infinite or NaN quotient, for
\* which the comparison is false
isPointInShape(x, y, shape) ==
    LET numX == 2 * x - 2 * shape.x - shape.width
        numY == 2 * y - 2 * shape.y - shape.height
    IN  CASE shape.type = "rectangle" ->
                /\ x >= shape.x /\ x <= shape.x + shape.width
                /\ y >= shape.y /\ y <= shape.y + shape.height
          [] shape.type = "circle" ->
                /\ shape.width # 0 /\ shape.height # 0
                /\ LET dx == Rat(numX, Abs(shape.width))
                       dy == Rat(numY, Abs(shape.height))
                   IN  RLeq(RAdd(RMul(dx, dx), RMul(dy, dy)), ROne)
          [] shape.type = "diamond" ->
                /\ shape.width # 0 /\ shape.height # 0
                /\ RLeq(RAdd(Rat(Abs(numX), shape.width),
                             Rat(Abs(numY), shape.height)), ROne)
          [] OTHER -> FALSE

\* findShapeAtPosition: the index of the last shape the point is in, or -1
RECURSIVE findShapeAtPositionFrom(_, _, _, _)
findShapeAtPositionFrom(ss, x, y, i) ==
    IF i < 0 THEN 0 - 1
    ELSE IF isPointInShape(x, y, At(ss, i)) THEN i
    ELSE findShapeAtPositionFrom(ss, x, y, i - 1)

findShapeAtPosition(ss, x, y) == findShapeAtPositionFrom(ss, x, y, Len(ss) - 1)

\* `shape.text || ''`
textOrEmpty(shape) == IF shape.text = Undefined THEN <<>> ELSE shape.text

\* mutant: the last two shapes go
poppedTwice(ss) == SubSeq(ss, 1, Max(Len(ss) - 2, 0))

\* shapes.pop()
popped(ss) == SubSeq(ss, 1, Len(ss) - 1)

\* mutant: the shape takes the text and moves to the origin
textSavedAtOrigin(ss, ed) ==
    IF ed.target < 0 THEN ss
    ELSE [ss EXCEPT ![ed.target + 1].text = ed.value, ![ed.target + 1].x = 0]

\* the list after saveText of the editor ed: `shape.text = textInput.value`
\* on the edited shape, which may no longer be in the list
textSaved(ss, ed) ==
    IF ed.target < 0 THEN ss
    ELSE [ss EXCEPT ![ed.target + 1].text = ed.value]

\* the page starts with an empty list; the engine is not called
InitUI ==
    /\ shapes = <<>>
    /\ mode = "diagram"
    /\ canvasWidth = 65
    /\ canvasHeight = 45
    /\ \E page \in Pages :
        /\ snapSize = page.snapSize
        /\ scale = page.scale
    /\ EngineIdle
    /\ PageLoaded

\* the handlers whose calls are logged
Logged ==
    {"undo-btn click", "clear-diagram click", "keydown Escape", "animation frame"}

\* the log of the last event: for a logged handler its name, then the
\* drawing and callback calls it made in order; empty after any other handler
Handled(name, calls) ==
    callbacks' = IF name \in Logged THEN <<name>> \o calls ELSE <<>>

\* a click on a button of the shape toolbar
SelectShape ==
    /\ \E type \in Toolbar : currentShape' = type
    /\ Handled("shape-btn click", <<>>)
    /\ UNCHANGED <<shapes, pageVars, engineVars, isDrawing, startX, startY,
                   currentPreview, animationFrameId, pendingFrames, editor, pressTimer,
                   strayTimers>>

\* mousedown on the canvas
MouseDown ==
    /\ \E client \in ClientPoints :
        /\ OnCanvas(client)
        /\ LET pos == getMousePos(client, snapSize)
           IN  /\ isDrawing' = TRUE
               /\ startX' = pos.x
               /\ startY' = pos.y
    /\ Handled("mousedown", <<>>)
    /\ UNCHANGED <<shapes, pageVars, engineVars, currentShape, currentPreview,
                   animationFrameId, pendingFrames, editor, pressTimer, strayTimers>>

\* the body shared by the mousemove and touchmove handlers
\* mutant: a callback is requested by every move
scheduledAlways(id, pending) == pending + 1

\* `if (animationFrameId) return;` before requestAnimationFrame: the number
\* of callbacks the browser holds after a move
scheduled(id, pending) == IF id THEN pending ELSE pending + 1

Move(name) ==
    /\ isDrawing
    /\ \E client \in ClientPoints :
        LET pos == getMousePos(client, snapSize)
        IN  currentPreview' = [type |-> currentShape, x |-> startX, y |-> startY,
                               width |-> pos.x - startX,
                               height |-> pos.y - startY]
    /\ animationFrameId' = TRUE
    /\ pendingFrames' = scheduled(animationFrameId, pendingFrames)
    /\ pendingFrames' <= MaxFrames
    /\ Handled(name, <<>>)
    /\ UNCHANGED <<shapes, pageVars, engineVars, currentShape, isDrawing,
                   startX, startY, editor, pressTimer, strayTimers>>

\* mousemove anywhere on the document
MouseMove == Move("mousemove")

\* touchmove anywhere on the document
TouchMove == Move("touchmove")

\* the callback given to requestAnimationFrame
AnimationFrame ==
    /\ pendingFrames > 0
    /\ pendingFrames' = pendingFrames - 1
    /\ animationFrameId' = FALSE
    /\ Handled("animation frame",
               IF currentPreview # NoPreview
               THEN <<"redrawShapes", "drawShapePreview">>
               ELSE <<"redrawShapes">>)
    /\ UNCHANGED <<shapes, pageVars, engineVars, currentShape, isDrawing,
                   startX, startY, currentPreview, editor, pressTimer,
                   strayTimers>>

\* the end of a gesture at pos: the shape is pushed when sizeOK
Complete(name, pos, sizeOK) ==
    /\ IF sizeOK
       THEN /\ Len(shapes) < MaxDrawn
            /\ shapes' = Append(shapes,
                                newShape(currentShape, startX, startY, pos.x, pos.y))
            /\ currentPreview' = NoPreview
            /\ Handled(name, <<"redrawShapes", "showEditHint">>)
       ELSE /\ UNCHANGED <<shapes, currentPreview>>
            /\ Handled(name, <<>>)
    /\ isDrawing' = FALSE

\* mouseup anywhere on the document
MouseUp ==
    /\ isDrawing
    /\ \E client \in ClientPoints :
        LET pos == getMousePos(client, snapSize)
        IN  Complete("mouseup", pos,
                     mouseSizeOK(pos.x - startX, pos.y - startY, snapSize))
    /\ UNCHANGED <<pageVars, engineVars, currentShape, startX, startY,
                   animationFrameId, pendingFrames, editor, pressTimer, strayTimers>>

\* the long-press timers that have not fired and were not cleared
PendingTimers ==
    (IF pressTimer.pending THEN <<[x |-> pressTimer.x, y |-> pressTimer.y]>>
     ELSE <<>>) \o strayTimers

\* touchstart on the canvas: the drawing listener, then the long-press
\* listener, whose setTimeout overwrites pressTimer without clearing it
TouchStartUpTo(limit) ==
    /\ \E client \in ClientPoints :
        /\ OnCanvas(client)
        /\ LET pos == getMousePos(client, snapSize)
           IN  /\ isDrawing' = TRUE
               /\ startX' = pos.x
               /\ startY' = pos.y
               /\ IF currentShape = "text"
                  THEN UNCHANGED <<pressTimer, strayTimers>>
                  ELSE /\ Len(PendingTimers) < limit
                       /\ pressTimer' = [pending |-> TRUE, x |-> pos.x, y |-> pos.y]
                       /\ strayTimers' = PendingTimers
    /\ Handled("touchstart", <<>>)
    /\ UNCHANGED <<shapes, pageVars, engineVars, currentShape, currentPreview,
                   animationFrameId, pendingFrames, editor>>

\* touchstart on the canvas while fewer than MaxTimers timers are pending
TouchStart == TouchStartUpTo(MaxTimers)

\* touchstart on the canvas with up to MaxTouches fingers on it
MultiTouchStart == TouchStartUpTo(MaxTouches)

\* touchend: the canvas listener clears pressTimer when the touch began on
\* the canvas, then the document listener completes the gesture
TouchEndOn(onCanvas) ==
    /\ onCanvas \/ isDrawing
    /\ pressTimer' = IF onCanvas THEN NoTimer ELSE pressTimer
    /\ IF isDrawing
       THEN \E client \in ClientPoints :
                LET pos == getMousePos(client, snapSize)
                IN  Complete("touchend", pos,
                             touchSizeOK(pos.x - startX, pos.y - startY, snapSize))
       ELSE /\ Handled("touchend", <<>>)
            /\ UNCHANGED <<shapes, currentPreview, isDrawing>>
    /\ UNCHANGED <<pageVars, engineVars, currentShape, startX, startY,
                   animationFrameId, pendingFrames, editor, strayTimers>>

\* touchend of a touch that began on the canvas or elsewhere
TouchEnd == \E onCanvas \in BOOLEAN : TouchEndOn(onCanvas)

\* the editor after the shape at index left the list
Detached(ed, index) ==
    IF ed.open /\ ed.target = index THEN [ed EXCEPT !.target = 0 - 1] ELSE ed

\* the undo button: undoLastShape with redrawShapes and an empty update
Undo ==
    /\ IF Len(shapes) > 0
       THEN /\ shapes' = popped(shapes)
            /\ editor' = Detached(editor, Len(shapes) - 1)
            /\ Handled("undo-btn click", <<"redrawShapes", "update">>)
       ELSE /\ UNCHANGED <<shapes, editor>>
            /\ Handled("undo-btn click", <<>>)
    /\ UNCHANGED <<pageVars, engineVars, currentShape, isDrawing, startX,
                   startY, currentPreview, animationFrameId, pendingFrames, pressTimer,
                   strayTimers>>

\* the clear button (the flash of its caption is not represented)
Clear ==
    /\ shapes' = <<>>
    /\ editor' = IF editor.open THEN [editor EXCEPT !.target = 0 - 1] ELSE editor
    /\ Handled("clear-diagram click", <<"redrawShapes">>)
    /\ UNCHANGED <<pageVars, engineVars, currentShape, isDrawing, startX,
                   startY, currentPreview, animationFrameId, pendingFrames, pressTimer,
                   strayTimers>>

\* showTextEditor on the shape at index: an editor already on the page is
\* removed first, and removing the focused input fires its blur listener
\* (saveText) in some browsers and not in others
ShowTextEditor(name, index) ==
    \E blurred \in BOOLEAN :
        /\ blurred => editor.open
        /\ LET saved == IF blurred THEN textSaved(shapes, editor) ELSE shapes
           IN  /\ shapes' = saved
               /\ editor' = [open |-> TRUE, target |-> index,
                             value |-> textOrEmpty(At(saved, index))]
               /\ Handled(name, IF blurred THEN <<"redrawShapes">> ELSE <<>>)

\* the lookup shared by double click and long press
EditAt(name, x, y) ==
    LET clickedShape == findShapeAtPosition(shapes, x, y)
    IN  IF clickedShape >= 0
        THEN ShowTextEditor(name, clickedShape)
        ELSE /\ UNCHANGED <<shapes, editor>>
             /\ Handled(name, <<>>)

\* dblclick on the canvas
DblClick ==
    /\ \E client \in ClientPoints :
        /\ OnCanvas(client)
        /\ LET pos == getMousePos(client, snapSize)
           IN  EditAt("dblclick", pos.x, pos.y)
    /\ UNCHANGED <<pageVars, engineVars, currentShape, isDrawing, startX,
                   startY, currentPreview, animationFrameId, pendingFrames, pressTimer,
                   strayTimers>>

\* a long-press timer fires, 500 ms after its touchstart
LongPress ==
    /\ \E k \in DOMAIN PendingTimers :
        /\ EditAt("long press", PendingTimers[k].x, PendingTimers[k].y)
        /\ IF pressTimer.pending /\ k = 1
           THEN pressTimer' = NoTimer /\ UNCHANGED strayTimers
           ELSE /\ UNCHANGED pressTimer
                /\ LET j == IF pressTimer.pending THEN k - 1 ELSE k
                   IN  strayTimers' = SubSeq(strayTimers, 1, j - 1)
                            \o SubSeq(strayTimers, j + 1, Len(strayTimers))
    /\ UNCHANGED <<pageVars, engineVars, currentShape, isDrawing, startX,
                   startY, currentPreview, animationFrameId, pendingFrames>>

\* the user types into the text input
EditorInput ==
    /\ editor.open
    /\ \E value \in EditorValues : editor' = [editor EXCEPT !.value = value]
    /\ Handled("input", <<>>)
    /\ UNCHANGED <<shapes, pageVars, engineVars, currentShape, isDrawing,
                   startX, startY, currentPreview, animationFrameId, pendingFrames,
                   pressTimer, strayTimers>>

\* saveText: the text is stored, the input removed, the canvas redrawn
SaveText(name) ==
    /\ editor.open
    /\ shapes' = textSaved(shapes, editor)
    /\ editor' = NoEditor
    /\ Handled(name, <<"redrawShapes">>)
    /\ UNCHANGED <<pageVars, engineVars, currentShape, isDrawing, startX,
                   startY, currentPreview, animationFrameId, pendingFrames, pressTimer,
                   strayTimers>>

\* Enter in the text input
EditorEnter == SaveText("keydown Enter")

\* the text input loses the focus
EditorBlur == SaveText("blur")

\* Escape in the text input: the input is removed; where removing the
\* focused input fires blur, saveText runs
EditorEscape ==
    \/ SaveText("keydown Escape")
    \/ /\ editor.open
       /\ editor' = NoEditor
       /\ Handled("keydown Escape", <<>>)
       /\ UNCHANGED <<shapes, pageVars, engineVars, currentShape, isDrawing,
                      startX, startY, currentPreview, animationFrameId, pendingFrames,
                      pressTimer, strayTimers>>

NextUI ==
    \/ SelectShape
    \/ MouseDown
    \/ MouseMove
    \/ MouseUp
    \/ TouchStart
    \/ TouchMove
    \/ TouchEnd
    \/ AnimationFrame
    \/ Undo
    \/ Clear
    \/ DblClick
    \/ LongPress
    \/ EditorInput
    \/ EditorEnter
    \/ EditorBlur
    \/ EditorEscape

SpecUI == InitUI /\ [][NextUI]_vars

\* drawing gestures alone, with the animation frames the browser owes: a
\* requested callback runs before the next repaint
NextFrames ==
    \/ SelectShape
    \/ MouseDown
    \/ MouseMove
    \/ MouseUp
    \/ TouchStart
    \/ TouchMove
    \/ TouchEnd
    \/ AnimationFrame

SpecFrames == InitUI /\ [][NextFrames]_vars /\ WF_vars(AnimationFrame)

\* longest list on the page when the editing session starts
MaxEdited == 2

\* shapes the gestures can have drawn: at least one grid step wide and high,
\* stored with their upper left corner, without text or with a saved text
EditPalette(snap) ==
    { Snapped("rectangle", 0, 0, 1, 1, NoColor, Undefined, snap),
      Snapped("rectangle", 1, 1, 2, 2, NoColor, <<"B">>, snap),
      Snapped("circle", 0, 0, 2, 2, NoColor, Undefined, snap),
      Snapped("diamond", 0 - 1, 0, 2, 2, NoColor, Undefined, snap),
      Snapped("arrow", 0, 0, 2, 2, NoColor, Undefined, snap) }

\* an editing session: the page holds a list drawn earlier
InitEdit ==
    /\ mode = "diagram"
    /\ canvasWidth = 65
    /\ canvasHeight = 45
    /\ \E page \in Pages :
        /\ snapSize = page.snapSize
        /\ scale = page.scale
        /\ shapes \in ListsUpTo(EditPalette(page.snapSize), MaxEdited)
    /\ EngineIdle
    /\ PageLoaded

\* the events of an editing session: double click, touches with their long
\* press, and the keys and focus of the text input
NextEdit ==
    \/ DblClick
    \/ TouchStart
    \/ TouchEnd
    \/ LongPress
    \/ EditorInput
    \/ EditorEnter
    \/ EditorBlur
    \/ EditorEscape

SpecEdit == InitEdit /\ [][NextEdit]_vars

\* touches on a drawn diagram, several fingers at once
NextTouch ==
    \/ MultiTouchStart
    \/ TouchEnd
    \/ LongPress
    \/ EditorBlur

SpecTouch == InitEdit /\ [][NextTouch]_vars

-----------------------------------------------------------------------------
(* The UI-mockup page: rectangles, layout picker, input fields, prompt.    *)

\* the layouts of the picker.  The canvas sizes are a tenth of those of the
\* page (800 x 450, 450 x 800, 600 x 600), which keeps the grids at 8 x 4,
\* 4 x 8 and 6 x 6 cells
Layouts ==
    { [canvasWidth |-> 80, canvasHeight |-> 45],
      [canvasWidth |-> 45, canvasHeight |-> 80],
      [canvasWidth |-> 60, canvasHeight |-> 60] }

\* the colour buttons that are clicked: a frame colour and the text-area colour
Colors == {"#ff0000", Purple}

\* the number of input fields the user types into
MaxTyped == 1

\* what the user types into an input field
FieldValues == { <<"T">> }

\* the object literal pushed by the mouseup handler of the UI-mockup page
newRectangle(x0, y0, posX, posY, color) ==
    [type |-> "rectangle", x |-> Min(x0, posX), y |-> Min(y0, posY),
     width |-> Abs(posX - x0), height |-> Abs(posY - y0),
     color |-> color, text |-> Undefined]

\* generateInputFields from index on: one empty input per purple shape, with
\* the id text_<index> and the label Text Area <textAreaCounter>
RECURSIVE inputFieldsFrom(_, _, _)
inputFieldsFrom(ss, index, textAreaCounter) ==
    IF index >= Len(ss) THEN <<>>
    ELSE IF At(ss, index).color = Purple
    THEN <<[id |-> index, number |-> textAreaCounter, value |-> <<>>]>>
            \o inputFieldsFrom(ss, index + 1, textAreaCounter + 1)
    ELSE inputFieldsFrom(ss, index + 1, textAreaCounter)

\* container.innerHTML = '', then the fields of the list
generateInputFields(ss) == inputFieldsFrom(ss, 0, 1)

\* `textInput ? textInput.value : 'text content'` for the element text_<index>
descriptionOf(fields, index) ==
    IF \E k \in DOMAIN fields : fields[k].id = index
    THEN fields[CHOOSE k \in DOMAIN fields : fields[k].id = index].value
    ELSE <<"t", "e", "x", "t", " ", "c", "o", "n", "t", "e", "n", "t">>

\* the loop of generateFinalPrompt / generateAnnotatedASCII from index on: one
\* line `Text Area <textAreaCounter>: <description>` per purple shape
RECURSIVE annotationsFrom(_, _, _, _)
annotationsFrom(ss, fields, index, textAreaCounter) ==
    IF index >= Len(ss) THEN <<>>
    ELSE IF At(ss, index).color = Purple
    THEN <<[index |-> index, number |-> textAreaCounter,
            text |-> descriptionOf(fields, index)]>>
            \o annotationsFrom(ss, fields, index + 1, textAreaCounter + 1)
    ELSE annotationsFrom(ss, fields, index + 1, textAreaCounter)

generateAnnotatedASCII(ss, fields) == annotationsFrom(ss, fields, 0, 1)

\* updateLayout on the list ss: the preview gets the grid, the fields are made
\* anew
updateLayout(ss) ==
    LET result == generateASCII(ss, canvasWidth, canvasHeight, snapSize)
    IN  IF result.threw
        THEN UNCHANGED <<asciiPreview, inputFields>>
        ELSE /\ asciiPreview' = result.value
             /\ inputFields' = generateInputFields(ss)

\* the UI-mockup page after loading: desktop layout, no rectangle
InitMockup ==
    /\ shapes = <<>>
    /\ mode = "ui"
    /\ snapSize = 10
    /\ scale = 1
    /\ canvasWidth = 80
    /\ canvasHeight = 45
    /\ EngineIdle
    /\ PageLoaded

\* change of the layout picker: the canvas is resized and the list emptied
LayoutChange ==
    /\ \E layout \in Layouts :
        /\ canvasWidth' = layout.canvasWidth
        /\ canvasHeight' = layout.canvasHeight
    /\ shapes' = <<>>
    /\ UNCHANGED <<mode, snapSize, scale, mockupVars, engineVars, uiVars>>

\* a click on a colour button
SelectColor ==
    /\ \E color \in Colors : currentColor' = color
    /\ UNCHANGED <<shapes, mode, snapSize, canvasWidth, canvasHeight, scale,
                   asciiPreview, inputFields, annotations, engineVars, uiVars>>

\* mousedown on the canvas of the UI-mockup page
RectangleMouseDown ==
    /\ \E client \in ClientPoints :
        /\ OnCanvas(client)
        /\ LET pos == getMousePos(client, snapSize)
           IN  /\ isDrawing' = TRUE
               /\ startX' = pos.x
               /\ startY' = pos.y
    /\ UNCHANGED <<shapes, pageVars, engineVars, currentShape, currentPreview,
                   animationFrameId, pendingFrames, editor, pressTimer, strayTimers, callbacks>>

\* mouseup anywhere on the document: the rectangle is pushed when it has a
\* size, and then updateLayout runs
RectangleMouseUp ==
    /\ isDrawing
    /\ \E client \in ClientPoints :
        LET pos == getMousePos(client, snapSize)
            pushed == Append(shapes, newRectangle(startX, startY, pos.x, pos.y,
                                                  currentColor))
        IN  IF mouseSizeOK(pos.x - startX, pos.y - startY, snapSize)
            THEN /\ Len(shapes) < MaxDrawn
                 /\ shapes' = pushed
                 /\ updateLayout(pushed)
            ELSE UNCHANGED <<shapes, asciiPreview, inputFields>>
    /\ isDrawing' = FALSE
    /\ UNCHANGED <<mode, snapSize, canvasWidth, canvasHeight, scale,
                   currentColor, annotations, engineVars, currentShape, startX,
                   startY, currentPreview, animationFrameId, pendingFrames, editor, pressTimer,
                   strayTimers, callbacks>>

\* the undo button: undoLastRectangle
UndoLastRectangle ==
    /\ IF Len(shapes) > 0
       THEN /\ shapes' = popped(shapes)
            /\ updateLayout(popped(shapes))
       ELSE UNCHANGED <<shapes, asciiPreview, inputFields>>
    /\ UNCHANGED <<mode, snapSize, canvasWidth, canvasHeight, scale,
                   currentColor, annotations, engineVars, uiVars>>

\* the clear button: list, preview, prompt and fields are emptied
ClearCanvas ==
    /\ shapes' = <<>>
    /\ asciiPreview' = <<>>
    /\ inputFields' = <<>>
    /\ annotations' = <<>>
    /\ UNCHANGED <<mode, snapSize, canvasWidth, canvasHeight, scale,
                   currentColor, engineVars, uiVars>>

\* the user types into one of the input fields
FieldInput ==
    /\ Cardinality({ k \in DOMAIN inputFields : inputFields[k].value # <<>> })
            < MaxTyped
    /\ \E k \in DOMAIN inputFields : \E value \in FieldValues :
        inputFields' = [inputFields EXCEPT ![k].value = value]
    /\ UNCHANGED <<shapes, mode, snapSize, canvasWidth, canvasHeight, scale,
                   currentColor, asciiPreview, annotations, engineVars, uiVars>>

\* the prompt button: generateFinalPrompt rasterizes the list and reads the
\* input fields
GetPrompt ==
    /\ mode = "ui"
    /\ LET result == generateASCII(shapes, canvasWidth, canvasHeight, snapSize)
       IN  /\ asciiOutput' = result.value
           /\ Outcome("generateASCII", result)
           /\ annotations' = IF result.threw THEN annotations
                             ELSE generateAnnotatedASCII(shapes, inputFields)
    /\ cellChars' = asciiCells(shapes, canvasWidth, canvasHeight, snapSize)
    /\ numbers' = textAreaNumbers(shapes)
    /\ UNCHANGED <<shapes, mode, snapSize, canvasWidth, canvasHeight, scale,
                   currentColor, asciiPreview, inputFields, outputs,
                   connections, resolved, uiVars>>

NextMockup ==
    \/ LayoutChange
    \/ SelectColor
    \/ RectangleMouseDown
    \/ RectangleMouseUp
    \/ UndoLastRectangle
    \/ ClearCanvas
    \/ FieldInput
    \/ GetPrompt

SpecMockup == InitMockup /\ [][NextMockup]_vars

-----------------------------------------------------------------------------
(* Prompt generation over a given list of shapes.                          *)

\* the first forEach of generateDiagramPrompt from index on: its own map of
\* the shapes with a non-blank text, numbered 1, 2, ...
RECURSIVE promptNumbersFrom(_, _, _)
promptNumbersFrom(ss, index, counter) ==
    IF index >= Len(ss) THEN EmptyMap
    ELSE IF HasText(At(ss, index))
    THEN (index :> counter) @@ promptNumbersFrom(ss, index + 1, counter + 1)
    ELSE promptNumbersFrom(ss, index + 1, counter)

\* the second forEach of generateDiagramPrompt from index on: one legend line
\* `<number>: <text> (<type>)` per shape of the map
RECURSIVE legendFrom(_, _, _)
legendFrom(ss, map, index) ==
    IF index >= Len(ss) THEN <<>>
    ELSE IF index \in DOMAIN map
    THEN <<[index |-> index, number |-> map[index],
            text |-> At(ss, index).text]>> \o legendFrom(ss, map, index + 1)
    ELSE legendFrom(ss, map, index + 1)

\* the legend of generateDiagramPrompt
legend(ss) == legendFrom(ss, promptNumbersFrom(ss, 0, 1), 0)

\* a click on the Generate Prompt button of the diagram page: nothing for an
\* empty list, else generateDiagramPrompt rasterizes the list and builds the
\* legend
GeneratePrompt ==
    /\ mode = "diagram"
    /\ Len(shapes) # 0
    /\ LET result == generateDiagramASCII(shapes, canvasWidth, canvasHeight, snapSize)
       IN  /\ asciiOutput' = result.value
           /\ Outcome("generateDiagramPrompt", result)
           /\ annotations' = IF result.threw THEN annotations ELSE legend(shapes)
    /\ cellChars' = diagramCells(shapes, canvasWidth, canvasHeight, snapSize)
    /\ numbers' = shapeNumbers(shapes)
    /\ shapes' = shapesAfter(shapes)
    /\ UNCHANGED <<mode, snapSize, canvasWidth, canvasHeight, scale,
                   currentColor, asciiPreview, inputFields, outputs,
                   connections, resolved, uiVars>>

\* updateLayout of the UI-mockup page, on the list as it is
UpdateLayout ==
    /\ mode = "ui"
    /\ updateLayout(shapes)
    /\ UNCHANGED <<shapes, mode, snapSize, canvasWidth, canvasHeight, scale,
                   currentColor, annotations, engineVars, uiVars>>

NextPrompt ==
    \/ GeneratePrompt
    \/ UpdateLayout
    \/ GetPrompt

SpecPrompt == Init /\ [][NextPrompt]_vars

-----------------------------------------------------------------------------
(* Properties.                                                             *)

\* the rasterizer has been applied and returned a string
Rasterizers == {"generateASCII", "generateDiagramASCII"}

Rasterized == called \cap Rasterizers # {} /\ threw \cap Rasterizers = {}

\* the positions of the newlines of a text
Newlines(text) == { k \in DOMAIN text : text[k] = "\n" }

\* the start of the line that the newline at position k ends, minus one
LineStart(text, k) ==
    LET before == { j \in Newlines(text) : j < k }
    IN  IF before = {} THEN 0 ELSE CHOOSE j \in before : \A i \in before : i <= j

\* the lengths of the newline-terminated lines of a text
LineLengths(text) == { k - LineStart(text, k) - 1 : k \in Newlines(text) }

\* the number of newline-terminated lines of a text
LineCount(text) == Cardinality(Newlines(text))

EndsEveryLine(text) == text = <<>> \/ text[Len(text)] = "\n"

\* the shapes that count as content on the page
IsContent(shape) ==
    IF mode = "ui"
    THEN shape.color = Purple
    ELSE /\ shape.text # Undefined
         /\ \E k \in DOMAIN shape.text : ~IsWhitespace(shape.text[k])

ContentIndices(ss) == { i \in 0..(Len(ss) - 1) : IsContent(At(ss, i)) }

\* C1 as stated: whatever the number of content shapes, the rasterizer's text
\* has exactly floor(canvasHeight / snapSize) lines, each of length
\* floor(canvasWidth / snapSize).
C1_GridDimensionsAnyList ==
    Rasterized =>
        /\ EndsEveryLine(asciiOutput)
        /\ LineCount(asciiOutput) = canvasHeight \div snapSize
        /\ \A n \in LineLengths(asciiOutput) : n = canvasWidth \div snapSize

\* C1 amended: the text always has exactly floor(canvasHeight / snapSize)
\* newline-terminated lines; with fewer than ten content shapes every line
\* has length floor(canvasWidth / snapSize).
C1_GridDimensions ==
    Rasterized =>
        /\ EndsEveryLine(asciiOutput)
        /\ LineCount(asciiOutput) = canvasHeight \div snapSize
        /\ Cardinality(ContentIndices(shapes)) < 10 =>
            \A n \in LineLengths(asciiOutput) : n = canvasWidth \div snapSize

\* nine content shapes, and the ninth is drawn on the grid
C1_Witness ==
    /\ Rasterized
    /\ Cardinality(ContentIndices(shapes)) = 9
    /\ \E k \in DOMAIN asciiOutput : asciiOutput[k] = "9"

\* the shapes whose perimeter test holds at the cell (gx, gy)
Claimants(gx, gy) ==
    { i \in 0..(Len(shapes) - 1) : isOnPerimeter(gx, gy, At(shapes, i), snapSize) }

MinOf(S) == CHOOSE i \in S : \A j \in S : i <= j

\* the glyph of the shape at index i on the page
GlyphOf(i, gx, gy) ==
    IF mode = "ui"
    THEN asciiGlyph(shapes, numbers, i)
    ELSE diagramGlyph(shapes, numbers, gx, gy, snapSize, i)

\* C2: every cell carries the glyph of the lowest-index shape whose perimeter
\* test holds there, and a space when no shape's test holds.
C2_FirstMatchWins ==
    Rasterized =>
        \A gy \in DOMAIN cellChars : \A gx \in DOMAIN cellChars[gy] :
            LET S == Claimants(gx - 1, gy - 1)
            IN  IF S = {} THEN cellChars[gy][gx] = <<" ">>
                ELSE cellChars[gy][gx] = GlyphOf(MinOf(S), gx - 1, gy - 1)

\* a cell claimed by two shapes with different glyphs shows the first one's
C2_Witness ==
    /\ Rasterized
    /\ \E gy \in DOMAIN cellChars : \E gx \in DOMAIN cellChars[gy] :
        \E i, j \in Claimants(gx - 1, gy - 1) :
            /\ i < j
            /\ GlyphOf(i, gx - 1, gy - 1) # GlyphOf(j, gx - 1, gy - 1)
            /\ cellChars[gy][gx] = GlyphOf(i, gx - 1, gy - 1)

\* the border of the block of cells col0..col1 x row0..row1
OnBorder(gx, gy, col0, col1, row0, row1) ==
    /\ gx >= col0 /\ gx <= col1 /\ gy >= row0 /\ gy <= row1
    /\ (gx = col0 \/ gx = col1 \/ gy = row0 \/ gy = row1)

\* a rectangle of at least one cell with snapped position and size
SnappedRectangle(shape) ==
    /\ shape.type = "rectangle"
    /\ shape.x % snapSize = 0 /\ shape.y % snapSize = 0
    /\ shape.width % snapSize = 0 /\ shape.height % snapSize = 0
    /\ shape.width >= snapSize /\ shape.height >= snapSize

\* the scene of the example: snap size 10, canvas 200 x 100, one rectangle
InBorderScene ==
    /\ snapSize = 10 /\ canvasWidth = 200 /\ canvasHeight = 100
    /\ Len(shapes) = 1
    /\ shapes[1].type = "rectangle"
    /\ <<shapes[1].x, shapes[1].y, shapes[1].width, shapes[1].height>>
            = <<20, 20, 60, 40>>

\* C3: for a snapped rectangle the perimeter test holds exactly on the border
\* of its block of cells, for all cells of the grid and one cell around it;
\* the rectangle (20, 20, 60, 40) is drawn as a closed border on rows 2-5,
\* columns 2-7 of the 20 x 10 grid, with spaces elsewhere.
C3_RectangleBorder ==
    /\ \A i \in DOMAIN shapes :
        SnappedRectangle(shapes[i]) =>
            \A gx \in (0 - 1)..(canvasWidth \div snapSize) :
                \A gy \in (0 - 1)..(canvasHeight \div snapSize) :
                    isOnPerimeter(gx, gy, shapes[i], snapSize)
                    <=> OnBorder(gx, gy,
                            shapes[i].x \div snapSize,
                            (shapes[i].x + shapes[i].width) \div snapSize - 1,
                            shapes[i].y \div snapSize,
                            (shapes[i].y + shapes[i].height) \div snapSize - 1)
    /\ (InBorderScene /\ Rasterized) =>
        /\ Len(cellChars) = 10
        /\ \A gy \in 1..10 :
            /\ Len(cellChars[gy]) = 20
            /\ \A gx \in 1..20 :
                cellChars[gy][gx] =
                    IF OnBorder(gx - 1, gy - 1, 2, 7, 2, 5)
                    THEN <<"#">> ELSE <<" ">>

\* the example has been rasterized and its corners are drawn
C3_Witness ==
    /\ InBorderScene
    /\ Rasterized
    /\ cellChars[3][3] = <<"#">> /\ cellChars[6][8] = <<"#">>
    /\ cellChars[3][8] = <<"#">> /\ cellChars[6][3] = <<"#">>
    /\ cellChars[4][4] = <<" ">>

\* the label map was built by a rasterizer call
Numbered == called \cap Rasterizers # {}

\* C4: the label map numbers exactly the content shapes, 1, 2, ..., k in
\* increasing index order: the number of a content shape is the count of
\* content shapes up to and including it.
C4_LabelsSequential ==
    Numbered =>
        /\ DOMAIN numbers = ContentIndices(shapes)
        /\ \A i \in DOMAIN numbers :
            numbers[i] = Cardinality({ j \in ContentIndices(shapes) : j <= i })

\* two content shapes with a shape without content between them get 1 and 2
C4_Witness ==
    /\ Numbered
    /\ \E i, j, k \in 0..(Len(shapes) - 1) :
        /\ i < j /\ j < k
        /\ i \in DOMAIN numbers /\ k \in DOMAIN numbers
        /\ ~IsContent(At(shapes, j))
        /\ numbers[i] = 1 /\ numbers[k] = 2

\* the label map of a list on the page
LabelMapOf(ss) == IF mode = "ui" THEN textAreaNumbers(ss) ELSE shapeNumbers(ss)

\* the shapes that can be drawn next on the page
PagePalette ==
    IF mode = "ui" THEN UIPalette(snapSize) ELSE DiagramPalette(snapSize)

\* C5: appending any shape leaves the number of every content shape of the
\* list as the rasterizer computed it.
C5_StableUnderAppend ==
    Numbered =>
        \A s \in PagePalette :
            LET after == LabelMapOf(Append(shapes, s))
            IN  \A i \in DOMAIN numbers :
                    i \in DOMAIN after /\ after[i] = numbers[i]

\* a list with content shapes, to which a content shape can be appended and
\* then gets the next number
C5_Witness ==
    /\ Numbered
    /\ Cardinality(DOMAIN numbers) >= 2
    /\ \E s \in PagePalette :
        /\ IsContent(s)
        /\ LabelMapOf(Append(shapes, s))[Len(shapes)]
                = Cardinality(DOMAIN numbers) + 1

\* the list without the shape at the zero-based index i
RemoveAt(ss, i) ==
    [k \in 1..(Len(ss) - 1) |-> IF k <= i THEN ss[k] ELSE ss[k + 1]]

\* C6: removing a content shape and numbering again leaves the numbers of the
\* earlier content shapes and lowers the number of every later one by one (so
\* the second of two content shapes becomes number 1 when the first goes).
C6_RenumberOnRemove ==
    Numbered =>
        \A i \in DOMAIN numbers :
            LET after == LabelMapOf(RemoveAt(shapes, i))
            IN  \A j \in DOMAIN numbers :
                    /\ j < i => (j \in DOMAIN after /\ after[j] = numbers[j])
                    /\ j > i => /\ (j - 1) \in DOMAIN after
                                /\ after[j - 1] = numbers[j] - 1

\* content shapes numbered 1 and 2, and the second is number 1 without the first
C6_Witness ==
    /\ Numbered
    /\ \E i, j \in DOMAIN numbers :
        /\ i < j
        /\ numbers[i] = 1 /\ numbers[j] = 2
        /\ LabelMapOf(RemoveAt(shapes, i))[j - 1] = 1

\* generateConnections has been applied and returned a list
Connected == "generateConnections" \in called /\ "generateConnections" \notin threw

IsArrow(i) == At(shapes, i).type = "arrow"

ArrowStart(i) == <<At(shapes, i).x, At(shapes, i).y>>

ArrowEnd(i) ==
    <<At(shapes, i).x + At(shapes, i).width, At(shapes, i).y + At(shapes, i).height>>

\* the shapes other than the arrow i that the point is near
NearShapes(i, point) ==
    { j \in (0..(Len(shapes) - 1)) \ {i} :
        isPointNearShape(point[1], point[2], At(shapes, j)) }

\* the point lies on the outline of the rectangle
OnRectangleEdge(point, shape) ==
    /\ shape.type = "rectangle"
    /\ point[1] >= shape.x /\ point[1] <= shape.x + shape.width
    /\ point[2] >= shape.y /\ point[2] <= shape.y + shape.height
    /\ \/ point[1] = shape.x \/ point[1] = shape.x + shape.width
       \/ point[2] = shape.y \/ point[2] = shape.y + shape.height

Quoted(text) == <<"\"">> \o text \o <<"\"">>

\* the scene of the example: R1, R2, and the arrow from (100, 50) by (100, 0)
InArrowScene ==
    /\ snapSize = 10
    /\ Len(shapes) = 3
    /\ shapes[1].type = "rectangle" /\ shapes[2].type = "rectangle"
    /\ <<shapes[1].x, shapes[1].y, shapes[1].width, shapes[1].height>>
            = <<0, 0, 100, 100>>
    /\ <<shapes[2].x, shapes[2].y, shapes[2].width, shapes[2].height>>
            = <<200, 0, 100, 100>>
    /\ shapes[3].type = "arrow"
    /\ <<shapes[3].x, shapes[3].y, shapes[3].width, shapes[3].height>>
            = <<100, 50, 100, 0>>

\* C7: an arrow that starts on the edge of one rectangle and ends on the edge
\* of another, with no other shape near either end, contributes exactly one
\* connection, from the first rectangle to the second (their texts, quoted,
\* when both have one); the example list gives exactly one connection, from
\* R1 to R2.
C7_ArrowConnects ==
    Connected =>
        /\ \A i \in 0..(Len(shapes) - 1) : \A a, b \in 0..(Len(shapes) - 1) :
            ( /\ IsArrow(i) /\ a # b
              /\ OnRectangleEdge(ArrowStart(i), At(shapes, a))
              /\ OnRectangleEdge(ArrowEnd(i), At(shapes, b))
              /\ NearShapes(i, ArrowStart(i)) = {a}
              /\ NearShapes(i, ArrowEnd(i)) = {b} )
            => /\ Cardinality({ k \in DOMAIN resolved : resolved[k].arrow = i }) = 1
               /\ \A k \in DOMAIN resolved :
                    resolved[k].arrow = i =>
                        /\ resolved[k].start = a /\ resolved[k].end = b
                        /\ (HasText(At(shapes, a)) /\ HasText(At(shapes, b))) =>
                            connections[k] = Quoted(At(shapes, a).text)
                                                \o <<" ", "->", " ">>
                                                \o Quoted(At(shapes, b).text)
        /\ InArrowScene =>
            /\ Len(connections) = 1
            /\ resolved = <<[arrow |-> 2, start |-> 0, end |-> 1]>>

\* the example with both rectangles labelled gives "R1" -> "R2"
C7_Witness ==
    /\ Connected
    /\ InArrowScene
    /\ connections = << <<"\"", "R", "1", "\"", " ", "->", " ", "\"", "R", "2", "\"">> >>

ZeroLength(shape) == shape.type = "arrow" /\ shape.width = 0 /\ shape.height = 0

\* C8 as stated: a zero-length arrow is on the perimeter of no cell and
\* contributes no connection.
C8_ZeroLengthArrowInert ==
    /\ \A i \in DOMAIN shapes :
        ZeroLength(shapes[i]) =>
            \A gx \in (0 - 1)..(canvasWidth \div snapSize) :
                \A gy \in (0 - 1)..(canvasHeight \div snapSize) :
                    ~isOnPerimeter(gx, gy, shapes[i], snapSize)
    /\ Connected =>
        \A k \in DOMAIN resolved : ~ZeroLength(At(shapes, resolved[k].arrow))

\* C9 as stated: the number synthesized for a resolved shape without text is
\* the number the rasterizer's label map gives that shape, and no other
\* shape has it.
C9_SynthesizedLabelAgrees ==
    (Connected /\ Numbered) =>
        \A k \in DOMAIN resolved :
            \A e \in {resolved[k].start, resolved[k].end} :
                ~HasText(At(shapes, e)) =>
                    { j \in DOMAIN numbers :
                        numbers[j] = labelCounter(shapes, e, 0) } = {e}

\* C10: no entry point throws, whatever the list; for the empty list the
\* grid holds only spaces and newlines.
C10_Total ==
    /\ threw = {}
    /\ (shapes = <<>> /\ Rasterized) =>
        /\ asciiOutput # <<>>
        /\ \A k \in DOMAIN asciiOutput : asciiOutput[k] \in {" ", "\n"}

\* both entry points of the diagram page returned for a list holding an
\* arrow drawn on the grid, a zero-length arrow and a zero-size circle
C10_Witness ==
    /\ Rasterized
    /\ Connected
    /\ \E i \in DOMAIN shapes : ZeroLength(shapes[i])
    /\ \E i \in DOMAIN shapes :
        shapes[i].type = "circle" /\ shapes[i].width = 0 /\ shapes[i].height = 0
    /\ \E k \in DOMAIN asciiOutput : asciiOutput[k] \in {"-", "|", "/", "\\"}

\* a circle or diamond with a zero radius or half-extent
ZeroExtent(shape) ==
    /\ shape.type \in {"circle", "diamond"}
    /\ (shape.width = 0 \/ shape.height = 0)

\* C11 as stated: a circle or diamond whose width or height is 0 is on the
\* perimeter of no grid cell, so no cell of the grid shows it.
C11_ZeroExtentNeverClaims ==
    /\ \A i \in DOMAIN shapes :
        ZeroExtent(shapes[i]) =>
            \A gx \in 0..(canvasWidth \div snapSize - 1) :
                \A gy \in 0..(canvasHeight \div snapSize - 1) :
                    ~isOnPerimeter(gx, gy, shapes[i], snapSize)
    /\ Rasterized =>
        \A gy \in DOMAIN cellChars : \A gx \in DOMAIN cellChars[gy] :
            LET S == Claimants(gx - 1, gy - 1)
            IN  S # {} => ~ZeroExtent(At(shapes, MinOf(S)))

\* the highest index of a set of indices, -1 when there is none
MaxOf(S) == IF S = {} THEN 0 - 1 ELSE CHOOSE i \in S : \A j \in S : j <= i

Arrows == { i \in 0..(Len(shapes) - 1) : IsArrow(i) }

\* C12: each end of each arrow attaches to the highest-index shape other
\* than the arrow that the end point is near, and to none when no shape is
\* near; the connections that were emitted carry these attachments.
C12_ReverseSearch ==
    /\ \A i \in Arrows :
        /\ arrowEnds(shapes, i).start = MaxOf(NearShapes(i, ArrowStart(i)))
        /\ arrowEnds(shapes, i).end = MaxOf(NearShapes(i, ArrowEnd(i)))
        /\ arrowEnds(shapes, i).start # i /\ arrowEnds(shapes, i).end # i
    /\ Connected =>
        \A k \in DOMAIN resolved :
            /\ resolved[k].start = MaxOf(NearShapes(resolved[k].arrow,
                                                    ArrowStart(resolved[k].arrow)))
            /\ resolved[k].end = MaxOf(NearShapes(resolved[k].arrow,
                                                  ArrowEnd(resolved[k].arrow)))

\* a connection whose start is near two shapes, one of them after the arrow
\* in the list, and is attached to the later one
C12_Witness ==
    /\ Connected
    /\ \E k \in DOMAIN resolved :
        LET near == NearShapes(resolved[k].arrow, ArrowStart(resolved[k].arrow))
        IN  /\ Cardinality(near) >= 2
            /\ resolved[k].start = MaxOf(near)
            /\ resolved[k].start > resolved[k].arrow
            /\ \E j \in near : j < resolved[k].arrow

\* the arrows both of whose end points are near some other shape
BothNear == { i \in Arrows : /\ NearShapes(i, ArrowStart(i)) # {}
                             /\ NearShapes(i, ArrowEnd(i)) # {} }

\* C13: generateConnections returns without throwing, with one connection
\* for each arrow both of whose ends resolve and none for any other arrow,
\* in the order of the arrows in the list; so there are never more
\* connections than arrows.
C13_ConnectionIffBothEnds ==
    /\ "generateConnections" \notin threw
    /\ Connected =>
        /\ Len(connections) = Len(resolved)
        /\ { resolved[k].arrow : k \in DOMAIN resolved } = BothNear
        /\ \A k, l \in DOMAIN resolved :
            k < l => resolved[k].arrow < resolved[l].arrow
        /\ Len(connections) <= Cardinality(Arrows)
        /\ \A k \in DOMAIN connections :
            connections[k] =
                getShapeLabel(shapes, At(shapes, resolved[k].start), resolved[k].start)
                \o <<" ", "->", " ">>
                \o getShapeLabel(shapes, At(shapes, resolved[k].end), resolved[k].end)

\* an arrow with one end resolved and the other not is dropped, while
\* another arrow of the same list gives a connection
C13_Witness ==
    /\ Connected
    /\ Len(connections) = 1
    /\ \E i \in Arrows \ BothNear :
        NearShapes(i, ArrowStart(i)) # {} \/ NearShapes(i, ArrowEnd(i)) # {}

\* the glyph of the octant of the vector (dx, dy): within 22.5 degrees of the
\* x axis "-", of the y axis "|", else the diagonal through the quadrant
\* (y grows downwards); 0.4142 < tan(22.5 deg) < 0.4143
OctantGlyph(dx, dy) ==
    IF 10000 * Abs(dy) <= 4142 * Abs(dx) THEN <<"-">>
    ELSE IF 10000 * Abs(dx) <= 4142 * Abs(dy) THEN <<"|">>
    ELSE IF (dx > 0) = (dy > 0) THEN <<"\\">>
    ELSE <<"/">>

Negated(shape) ==
    [shape EXCEPT !.width = 0 - shape.width, !.height = 0 - shape.height]

\* C14: a cell claimed by an arrow shows the glyph of the octant of the
\* arrow's vector: (10, 0) gives "-", (0, 10) gives "|", (10, 10) gives "\",
\* (10, -10) gives "/", and the negated vector gives the same glyph.
C14_ArrowGlyph ==
    (Rasterized /\ mode = "diagram") =>
        \A gy \in DOMAIN cellChars : \A gx \in DOMAIN cellChars[gy] :
            LET S == Claimants(gx - 1, gy - 1)
                arrow == At(shapes, MinOf(S))
                v == <<arrow.width, arrow.height>>
            IN  (S # {} /\ IsArrow(MinOf(S))) =>
                    /\ cellChars[gy][gx] = OctantGlyph(v[1], v[2])
                    /\ v = <<10, 0>> => cellChars[gy][gx] = <<"-">>
                    /\ v = <<0, 10>> => cellChars[gy][gx] = <<"|">>
                    /\ v = <<10, 10>> => cellChars[gy][gx] = <<"\\">>
                    /\ v = <<10, 0 - 10>> => cellChars[gy][gx] = <<"/">>
                    /\ cellChars[gy][gx]
                        = getArrowChar(Negated(arrow), gx - 1, gy - 1, snapSize)

\* the arrow with the vector (10, -10) is drawn with "/" on its cells
C14_Witness ==
    /\ Rasterized
    /\ shapes = GlyphScene(10, 0 - 10).shapes
    /\ cellChars[4][4] = <<"/">>
    /\ cellChars[3][5] = <<"/">>

\* the snapped positions a pointer can be released at
ReleasePoints == { getMousePos(client, snapSize) : client \in ClientPoints }

\* the shape a step appends to the list
Added == shapes'[Len(shapes')]

\* C15: a completed gesture stores a rectangle, circle or diamond with its
\* minimum corner and non-negative extents, and an arrow with the start point
\* of the gesture and the signed vector from there to the point of release.
C15_GestureStored ==
    [][Len(shapes') = Len(shapes) + 1 =>
        \E pos \in ReleasePoints :
            IF Added.type = "arrow"
            THEN /\ Added.x = startX
                 /\ Added.y = startY
                 /\ Added.width = pos.x - startX
                 /\ Added.height = pos.y - startY
            ELSE /\ Added.x = Min(startX, pos.x)
                 /\ Added.y = Min(startY, pos.y)
                 /\ Added.width = Abs(pos.x - startX)
                 /\ Added.height = Abs(pos.y - startY)]_vars

\* C16: in every state the page reaches, the x, y, width and height of every
\* shape of the list are integer multiples of the snap size of the page.
C16_OnGrid ==
    \A i \in DOMAIN shapes :
        /\ shapes[i].x % snapSize = 0
        /\ shapes[i].y % snapSize = 0
        /\ shapes[i].width % snapSize = 0
        /\ shapes[i].height % snapSize = 0

\* the list holds a shape dragged to a point left of the canvas and a shape
\* whose text was edited, on the page with the coarser grid
C16_Witness ==
    /\ snapSize = 15
    /\ Len(shapes) = 2
    /\ \E i \in DOMAIN shapes : shapes[i].x < 0 /\ shapes[i].width = 45
    /\ \E i \in DOMAIN shapes : shapes[i].text = <<"A">>

\* the fields of a shape other than its text
Placement(shape) ==
    <<shape.type, shape.x, shape.y, shape.width, shape.height, shape.color>>

\* C17: no event of the page changes the type, x, y, width or height of a
\* shape that stays in the list (only its text may change), and the list grows
\* only by one shape at the end of a gesture whose width and height are both,
\* in absolute value, at least the minimum size.
C17_PlacementFrozen ==
    [][/\ \A i \in DOMAIN shapes \cap DOMAIN shapes' :
            Placement(shapes'[i]) = Placement(shapes[i])
       /\ Len(shapes') > Len(shapes) =>
            /\ Len(shapes') = Len(shapes) + 1
            /\ isDrawing /\ ~isDrawing'
            /\ Added.text = Undefined
            /\ Abs(Added.width) >= Max(10, snapSize)
            /\ Abs(Added.height) >= Max(10, snapSize)]_vars

\* the text of the first shape, which does not lie at the origin, was saved,
\* and an arrow was drawn after it
C17_Witness ==
    /\ Len(shapes) = 2
    /\ shapes[1].text = <<"A">>
    /\ shapes[1].x < 0
    /\ shapes[2].type = "arrow"
    /\ ~editor.open
    /\ ~isDrawing

\* the event handled by a step is a click on the named button
Clicked(name) == callbacks' # <<>> /\ callbacks'[1] = name

\* C18: undo on a non-empty list removes its last shape and leaves the others
\* as they were and in their order, then calls the redraw callback followed
\* by the update callback; undo on an empty list changes nothing and calls
\* neither. Clear empties the list. No other event shortens the list.
C18_UndoAndClear ==
    [][/\ Clicked("undo-btn click") =>
            IF shapes # <<>>
            THEN /\ shapes' = SubSeq(shapes, 1, Len(shapes) - 1)
                 /\ callbacks' = <<"undo-btn click", "redrawShapes", "update">>
            ELSE /\ shapes' = shapes
                 /\ callbacks' = <<"undo-btn click">>
       /\ Clicked("clear-diagram click") => shapes' = <<>>
       /\ Len(shapes') < Len(shapes) =>
            Clicked("undo-btn click") \/ Clicked("clear-diagram click")]_vars

\* undo has just removed the second of two shapes, and the first one, with
\* its text, is still there
C18_Witness ==
    /\ callbacks = <<"undo-btn click", "redrawShapes", "update">>
    /\ Len(shapes) = 1
    /\ shapes[1].text = <<"A">>

Probes == { <<cx * snapSize, cy * snapSize>> : cx \in (0 - 1)..3, cy \in (0 - 1)..3 }

\* the containment test of the shape at index i, with the bounds of a
\* rectangle written out
Contains(i, x, y) ==
    LET shape == At(shapes, i)
    IN  IF shape.type = "rectangle"
        THEN /\ shape.x <= x /\ x <= shape.x + shape.width
             /\ shape.y <= y /\ y <= shape.y + shape.height
        ELSE isPointInShape(x, y, shape)

\* C21: at every point, findShapeAtPosition finds the highest index of a shape
\* that is not an arrow and contains the point (a rectangle including its
\* bounds), or nothing; so no double click or long press ever gives an arrow a
\* text.
C21_NeverAnArrow ==
    /\ \A p \in Probes :
        findShapeAtPosition(shapes, p[1], p[2])
            = MaxOf({ i \in 0..(Len(shapes) - 1) :
                        ~IsArrow(i) /\ Contains(i, p[1], p[2]) })
    /\ \A i \in 0..(Len(shapes) - 1) :
        IsArrow(i) => At(shapes, i).text = Undefined
    /\ editor.open /\ editor.target >= 0 => ~IsArrow(editor.target)

\* an arrow lies on top of a circle; the editor was opened by a press inside
\* both, for the circle, and a text was saved on the circle
C21_Witness ==
    /\ Len(shapes) = 2
    /\ shapes[1].type = "circle" /\ shapes[1].text = <<"A">>
    /\ shapes[2].type = "arrow"
    /\ editor.open /\ editor.target = 0

\* the coordinates probed along one axis of a rectangle from lo to hi: at,
\* one pixel inside and one pixel outside the tolerance of either edge
AxisProbes(lo, hi) ==
    { lo - tolerance - 1, lo - tolerance, lo, lo + tolerance, lo + tolerance + 1,
      hi - tolerance - 1, hi - tolerance, hi, hi + tolerance, hi + tolerance + 1,
      (lo + hi) \div 2 }

\* the point is inside the bounding box inflated by the tolerance
InInflatedBox(x, y, shape) ==
    /\ shape.x - tolerance <= x /\ x <= shape.x + shape.width + tolerance
    /\ shape.y - tolerance <= y /\ y <= shape.y + shape.height + tolerance

\* the point is within the tolerance of the line through one of the edges
NearAnEdgeLine(x, y, shape) ==
    \/ Abs(x - shape.x) <= tolerance
    \/ Abs(x - (shape.x + shape.width)) <= tolerance
    \/ Abs(y - shape.y) <= tolerance
    \/ Abs(y - (shape.y + shape.height)) <= tolerance

\* the point is inside, more than the tolerance away from all four edges
DeepInside(x, y, shape) ==
    /\ shape.type = "rectangle"
    /\ x - shape.x > tolerance /\ shape.x + shape.width - x > tolerance
    /\ y - shape.y > tolerance /\ shape.y + shape.height - y > tolerance

\* C22: for a rectangle, isPointNearShape holds exactly at the points inside
\* the bounding box inflated by the tolerance that are within the tolerance
\* of the line of at least one edge; it fails deep inside, so no arrow is
\* connected to a rectangle one of its ends lies deep inside of.
C22_RectangleAnnulus ==
    /\ \A i \in DOMAIN shapes :
        shapes[i].type = "rectangle" =>
            \A x \in AxisProbes(shapes[i].x, shapes[i].x + shapes[i].width) :
                \A y \in AxisProbes(shapes[i].y, shapes[i].y + shapes[i].height) :
                    /\ isPointNearShape(x, y, shapes[i])
                        <=> (InInflatedBox(x, y, shapes[i])
                             /\ NearAnEdgeLine(x, y, shapes[i]))
                    /\ DeepInside(x, y, shapes[i])
                        => ~isPointNearShape(x, y, shapes[i])
    /\ Connected =>
        \A k \in DOMAIN resolved :
            LET i == resolved[k].arrow
            IN  /\ ~DeepInside(ArrowStart(i)[1], ArrowStart(i)[2],
                               At(shapes, resolved[k].start))
                /\ ~DeepInside(ArrowEnd(i)[1], ArrowEnd(i)[2],
                               At(shapes, resolved[k].end))

\* the arrow starts deep inside the large rectangle, which is later in the
\* list than the small one around the start: it is connected from the small
\* one
C22_Witness ==
    /\ Connected
    /\ shapes = DeepScene(TRUE).shapes
    /\ DeepInside(50, 50, shapes[2])
    /\ Len(resolved) = 1
    /\ resolved[1].start = 0
    /\ resolved[1].end = 2

\* the fields on the page are those of the purple rectangles of the list, in
\* list order and numbered from 1
FieldsOfList ==
    /\ Len(inputFields) = Len(generateInputFields(shapes))
    /\ \A k \in DOMAIN inputFields :
        /\ inputFields[k].id = generateInputFields(shapes)[k].id
        /\ inputFields[k].number = k

\* every glyph of the preview is the glyph the list puts at that place
NoStaleGlyph ==
    LET current == generateASCII(shapes, canvasWidth, canvasHeight, snapSize).value
    IN  \A k \in DOMAIN asciiPreview :
            asciiPreview[k] \notin {" ", "\n"} =>
                /\ k \in DOMAIN current
                /\ current[k] = asciiPreview[k]

\* C23: on the UI-mockup page, after every operation that changes the list of
\* rectangles (a completed drag, undo, clear, a change of layout) there is
\* one input field per purple rectangle of the list and the preview shows no
\* glyph of a rectangle that is not in the list.
C23_PreviewFollowsList ==
    [][shapes' # shapes => FieldsOfList' /\ NoStaleGlyph']_vars

\* the rectangle of the field is in the list before and after the step
Survives(field) ==
    /\ field.id < Len(shapes)
    /\ field.id < Len(shapes')
    /\ At(shapes', field.id) = At(shapes, field.id)

\* C29: on the UI-mockup page, the description typed into the field of a
\* purple rectangle is kept by every later change of the list that leaves
\* that rectangle in the list (another rectangle is drawn, a different one is
\* undone).
C29_DescriptionKept ==
    [][shapes' # shapes =>
        \A k \in DOMAIN inputFields :
            Survives(inputFields[k]) =>
                \E j \in DOMAIN inputFields' :
                    /\ inputFields'[j].id = inputFields[k].id
                    /\ inputFields'[j].value = inputFields[k].value]_vars

\* the index of the first shape of the list that claims the cell, or -1
RECURSIVE claimantFrom(_, _, _)
claimantFrom(gx, gy, shapeIndex) ==
    IF shapeIndex >= Len(shapes) THEN 0 - 1
    ELSE IF isOnPerimeter(gx, gy, At(shapes, shapeIndex), snapSize)
    THEN shapeIndex
    ELSE claimantFrom(gx, gy, shapeIndex + 1)

\* shape i has cells of its own on the grid
Drawn(i) ==
    \E gy \in DOMAIN cellChars : \E gx \in DOMAIN cellChars[gy] :
        claimantFrom(gx - 1, gy - 1, 0) = i

\* a prompt has been generated from the list
Prompted ==
    /\ {"generateDiagramPrompt", "generateASCII"} \cap called # {}
    /\ threw = {}

\* C24: the number of a content shape is the same wherever it is computed.
\* On the diagram page the legend has one line per labelled shape, and the
\* line of shape i carries the number the grid draws in the cells of i; on
\* the UI-mockup page the label `Text Area N` of the field text_i and of
\* the annotation line of shape i carry the number drawn in the cells of i.
C24_SameNumber ==
    Prompted =>
        /\ \A i \in 0..(Len(shapes) - 1) :
            (IF mode = "diagram" THEN HasText(At(shapes, i))
                                 ELSE At(shapes, i).color = Purple)
                <=> \E k \in DOMAIN annotations : annotations[k].index = i
        /\ \A k \in DOMAIN inputFields :
            /\ At(shapes, inputFields[k].id).color = Purple
            /\ \A j \in DOMAIN annotations :
                annotations[j].index = inputFields[k].id
                    => annotations[j].number = inputFields[k].number
        /\ \A gy \in DOMAIN cellChars : \A gx \in DOMAIN cellChars[gy] :
            LET i == claimantFrom(gx - 1, gy - 1, 0)
            IN  i >= 0 /\ At(shapes, i).type # "arrow" =>
                    /\ \A k \in DOMAIN annotations :
                        annotations[k].index = i
                            => cellChars[gy][gx] = toString(annotations[k].number)
                    /\ \A k \in DOMAIN inputFields :
                        inputFields[k].id = i
                            => cellChars[gy][gx] = toString(inputFields[k].number)

\* a prompt whose second line belongs to a shape that is not the second of
\* the list and that is drawn on the grid; on the UI-mockup page its field
\* is there as well
C24_Witness ==
    /\ Prompted
    /\ Len(annotations) >= 2
    /\ annotations[2].index > 1
    /\ annotations[2].number = 2
    /\ Drawn(annotations[2].index)
    /\ mode = "ui" =>
        /\ Len(inputFields) >= 2
        /\ inputFields[2].id = annotations[2].index

\* C25: the Escape key closes the text editor without saving: after the
\* keydown handler, and the blur that the removal of the input may deliver,
\* every shape has the text it had before (no text and the empty text being
\* the same).
C25_EscapeDiscards ==
    [][Clicked("keydown Escape") =>
        /\ ~editor'.open
        /\ Len(shapes') = Len(shapes)
        /\ \A i \in DOMAIN shapes :
            textOrEmpty(shapes'[i]) = textOrEmpty(shapes[i])]_vars

\* a step of a move handler that stores a preview
MoveStep == currentPreview' # NoPreview /\ currentPreview' # currentPreview

\* a step of an animation-frame callback
FrameStep == pendingFrames' < pendingFrames

\* C26: at most one animation-frame redraw is pending at any time; a move
\* made while one is pending stores its preview and requests nothing; the
\* callback redraws the shapes, draws the preview stored last if there is
\* one, and clears animationFrameId, after which none is pending; and every
\* pending redraw is eventually run.
C26_OneFramePending ==
    /\ [](pendingFrames <= 1 /\ (animationFrameId <=> pendingFrames = 1))
    /\ [][MoveStep /\ animationFrameId =>
            /\ pendingFrames' = pendingFrames
            /\ animationFrameId'
            /\ shapes' = shapes]_vars
    /\ [][FrameStep =>
            /\ callbacks' = IF currentPreview # NoPreview
                            THEN <<"animation frame", "redrawShapes",
                                   "drawShapePreview">>
                            ELSE <<"animation frame", "redrawShapes">>
            /\ currentPreview' = currentPreview
            /\ ~animationFrameId'
            /\ pendingFrames' = 0]_vars
    /\ (animationFrameId ~> ~animationFrameId)

\* a second move of one gesture has replaced the preview while the redraw
\* requested by the first is still pending
C26_Witness ==
    /\ isDrawing
    /\ animationFrameId
    /\ pendingFrames = 1
    /\ currentPreview # NoPreview
    /\ currentPreview.width < 0
    /\ currentPreview.x > 0

\* C28: once a gesture has ended, an animation-frame callback that runs finds
\* no preview to draw: currentPreview is null, whether the gesture has added
\* a shape or was too small to.
C28_NoPreviewAfterGesture ==
    [][FrameStep /\ ~isDrawing =>
        /\ currentPreview = NoPreview
        /\ \A k \in DOMAIN callbacks' : callbacks'[k] # "drawShapePreview"]_vars

\* the pixel is inside the bounding box of the shape grown by margin on
\* every side
InBoxGrownBy(margin, pixelX, pixelY, shape) ==
    /\ Min(shape.x, shape.x + shape.width) - margin <= pixelX
    /\ pixelX <= Max(shape.x, shape.x + shape.width) + margin
    /\ Min(shape.y, shape.y + shape.height) - margin <= pixelY
    /\ pixelY <= Max(shape.y, shape.y + shape.height) + margin

\* C27: isOnPerimeter is local to the shape: a grid cell it accepts has its
\* pixel position inside the bounding box of the shape grown by snapSize on
\* every side, and inside the bounding box itself for a rectangle.
C27_PerimeterIsLocal ==
    \A i \in DOMAIN shapes :
        \A gx \in 0..(gridSize(canvasWidth, snapSize) - 1) :
            \A gy \in 0..(gridSize(canvasHeight, snapSize) - 1) :
                isOnPerimeter(gx, gy, shapes[i], snapSize) =>
                    InBoxGrownBy(IF shapes[i].type = "rectangle" THEN 0 ELSE snapSize,
                                 gx * snapSize, gy * snapSize, shapes[i])

\* C30: whatever the order of the touchstart and touchend events on the
\* canvas, at most one long-press timer is pending, and once the canvas has
\* handled a touchend no timer is left to fire.
C30_OneTimerCleared ==
    /\ [](Len(PendingTimers) <= 1)
    /\ [][TouchEndOn(TRUE) => Len(PendingTimers') = 0]_vars

=============================================================================
